---- MODULE Spec2Model ----
(***************************************************************************)
(* Model of src/sync/sync-origin-and-mirror.py: the change classifier      *)
(* (get_origin_branch_changes), one directional pass                        *)
(* (try_sync_origin_updates_into_mirror) run against two remote            *)
(* repositories through git commands, and the driver (main); of            *)
(* src/utils (Logger, configure_ssh_host); and of the main function of     *)
(* src/init/two-step/fetch-git-repo.py.                                    *)
(*                                                                         *)
(* A ref name is a sequence of characters, a ref path a sequence of names  *)
(* (refs/heads/f/a is <<f, a>>), a commit a node of a fixed history graph. *)
(* git itself is not part of the repository: its commands are modelled by  *)
(* what git 2.20 and later do with the arguments the code passes.          *)
(***************************************************************************)
EXTENDS Integers, Sequences, FiniteSets, TLC

\* ------------------------------------------------------------------ bounds
NumNames == 3        \* ref names the classifier's inputs are drawn from
MaxRules == 2        \* longest accept-rule list drawn for the classifier
NumPaths == 2        \* branch paths a remote may hold in a pass
MaxWrites == 1
NumThreads == 2       \* threads that call Logger
MaxCalls == 2         \* calls of Logger a thread makes
MaxClock == 2         \* distinct values of datetime.now()
MaxLines == 3         \* lines of ~/.ssh/config before the first call
MaxSshCalls == 2      \* calls of configure_ssh_host
MaxRepos == 2         \* repos under fetch-needed-repos
MaxRetry == 2         \* largest max-retry-times
NumTags == 1         \* tag names a remote may hold in a pass

\* ---------------------------------------------------------------- universe
NameList == << <<"a">>, <<"a", "b">>, <<"b">>, <<"c">> >>
Names == {NameList[i] : i \in 1..NumNames}

\* Branch paths in the order git ls-remote lists them (sorted by ref name).
PathList == << << <<"a">> >>, << <<"a", "b">> >>, << <<"b">> >>, << <<"f">>, <<"a">> >> >>
Paths == {PathList[i] : i \in 1..NumPaths}

TagList == <<"v1", "v2">>
TagNames == {TagList[i] : i \in 1..NumTags}

\* The commit graph: B is the common base, A1 and A2 diverge from it, M is
\* the merge of A1 and A2.
Commits == {"B", "A1", "A2", "M"}
Parents(c) ==
    CASE c = "B" -> {}
      [] c = "A1" -> {"B"}
      [] c = "A2" -> {"B"}
      [] c = "M" -> {"A1", "A2"}

RECURSIVE Ancestry(_)
\* The commits reachable from c, c included.
Ancestry(c) == {c} \cup UNION {Ancestry(p) : p \in Parents(c)}

\* An accept rule is a literal with an optional trailing $ ("a$", "a").
RuleA == [lit |-> <<"a">>, dollar |-> TRUE]
RuleAny == [lit |-> <<"a">>, dollar |-> FALSE]
RuleB == [lit |-> <<"b">>, dollar |-> TRUE]
Rules == {RuleA, RuleAny, RuleB}

RECURSIVE SeqsUpTo(_, _)
SeqsUpTo(S, n) ==
    IF n = 0 THEN {<<>>}
    ELSE LET shorter == SeqsUpTo(S, n - 1)
         IN  shorter \cup {Append(s, x) : s \in {t \in shorter : Len(t) = n - 1}, x \in S}

Range(s) == {s[i] : i \in 1..Len(s)}

\* ------------------------------------------------------------------- state
VARIABLES
    heads,        \* heads[r]: the branches of repository r, path -> commit
    tags,         \* tags[r]: the tags of repository r, name -> commit
    config,       \* sync-origin-and-mirror-config.json as main reads it
    mpc,          \* position in main
    returncode,   \* main's variable returncode (result of the first pass)
    mainRet,      \* what main returned
    params,       \* arguments of the running pass
    pc,           \* position in the pass
    cwd,          \* the process's current working directory
    savedCwd,     \* the pass's local variable cwd
    work,         \* the working repository at local_workspace
    originDict,   \* origin_branches_dict, in insertion order: <<name, commit>>
    mirrorDict,   \* mirror_branches_dict, in insertion order
    added,        \* origin_branch_added
    updated,      \* origin_branch_updated
    idx,          \* index of the branch the running loop handles
    cmds,         \* the git commands the pass has run, with their exit status
    ret,          \* the pass's return value
    heads0,       \* history: heads when the running pass started
    tags0,        \* history: tags when the running pass started
    logged,       \* the message the running pass gave to Logger.error
    written,      \* history: what the external writer put on the destination
    logger,       \* the class attributes of Logger
    fs,           \* the log folder: log files, lock files and who holds them
    thr,          \* the threads that call Logger: position and locals
    clock,        \* what datetime.now() returns
    ssh,          \* ~/.ssh/config and the last call of configure_ssh_host
    started,      \* history: the arguments of every pass main has started
    fetch         \* fetch-git-repo.py: main's position, locals and return value

vars == <<heads, tags, config, mpc, returncode, mainRet, params, pc, cwd, savedCwd,
          work, originDict, mirrorDict, added, updated, idx, cmds, ret, heads0, tags0,
          logged, written, logger, fs, thr, clock, ssh, started, fetch>>

None == "None"
\* A return value is <<code>>; <<>> while the call has not returned.
NoValue == <<>>
\* No branch checked out (the unborn initial branch).
NoHead == <<>>
EmptyFn == [x \in {} |-> x]
Put(f, k, v) == [x \in DOMAIN f \cup {k} |-> IF x = k THEN v ELSE f[x]]

\* --------------------------------------------------------------- dict view
\* A Python dict kept as the sequence of its items in insertion order.
Keys(d) == {d[i][1] : i \in 1..Len(d)}
Get(d, k) == LET i == CHOOSE j \in 1..Len(d) : d[j][1] = k IN d[i][2]

\* ------------------------------------------------------------- classifier
\* re.match(reg, branch_name): the pattern is anchored at the start of the
\* name only; a trailing $ anchors it at the end as well.
ReMatch(reg, name) ==
    /\ Len(reg.lit) <= Len(name)
    /\ SubSeq(name, 1, Len(reg.lit)) = reg.lit
    /\ (reg.dollar => Len(name) = Len(reg.lit))

\* Mutant of Matched: the flag starts out True.
MatchedAlways(rs, name, i) == TRUE

RECURSIVE Matched(_, _, _)
\* The inner loop over changed_branch_accept_rules, from rule i on.
Matched(rs, name, i) ==
    IF i > Len(rs) THEN FALSE
    ELSE IF ReMatch(rs[i], name) THEN TRUE
    ELSE Matched(rs, name, i + 1)

RECURSIVE ClassifyFromPrepend(_, _, _, _, _)
\* Mutant of ClassifyFrom: a name is put at the front of its list.
ClassifyFromPrepend(od, md, rs, i, acc) ==
    IF i > Len(od) THEN acc
    ELSE LET branch_name == od[i][1]
             origin_commit == od[i][2]
         IN  IF ~Matched(rs, branch_name, 1)
             THEN ClassifyFromPrepend(od, md, rs, i + 1, acc)
             ELSE IF branch_name \in Keys(md)
             THEN IF origin_commit # Get(md, branch_name)
                  THEN ClassifyFromPrepend(od, md, rs, i + 1,
                         [acc EXCEPT !.originUpdated = <<branch_name>> \o @])
                  ELSE ClassifyFromPrepend(od, md, rs, i + 1, acc)
             ELSE ClassifyFromPrepend(od, md, rs, i + 1,
                         [acc EXCEPT !.originAdded = <<branch_name>> \o @])

RECURSIVE ClassifyFrom(_, _, _, _, _)
\* The loop over origin_branch_dict.items(), from item i on, with the two
\* lists built so far.
ClassifyFrom(od, md, rs, i, acc) ==
    IF i > Len(od) THEN acc
    ELSE LET branch_name == od[i][1]
             origin_commit == od[i][2]
         IN  IF ~Matched(rs, branch_name, 1)
             THEN ClassifyFrom(od, md, rs, i + 1, acc)
             ELSE IF branch_name \in Keys(md)
             THEN IF origin_commit # Get(md, branch_name)
                  THEN ClassifyFrom(od, md, rs, i + 1,
                         [acc EXCEPT !.originUpdated = Append(@, branch_name)])
                  ELSE ClassifyFrom(od, md, rs, i + 1, acc)
             ELSE ClassifyFrom(od, md, rs, i + 1,
                         [acc EXCEPT !.originAdded = Append(@, branch_name)])

\* Mutant of get_origin_branch_changes: the two lists under each other's key.
get_origin_branch_changes_swapped(od, md, rs) ==
    LET r == ClassifyFrom(od, md, rs, 1, [originAdded |-> <<>>, originUpdated |-> <<>>])
    IN  [originAdded |-> r.originUpdated, originUpdated |-> r.originAdded]

get_origin_branch_changes(od, md, rs) ==
    ClassifyFrom(od, md, rs, 1, [originAdded |-> <<>>, originUpdated |-> <<>>])


\* ------------------------------------------------------------------- urls
\* A URL as its parts: scheme, host, separator, path.
UrlO == <<"git@", "o.example", ":", "o.git">>
UrlM == <<"git@", "m.example", ":", "m.git">>
UrlOHttps == <<"https://", "o.example", "/", "o.git">>
UrlMHttps == <<"https://", "m.example", "/", "m.git">>
Repos == {"o.git", "m.git"}
\* The repository a URL names.
RepoOf(url) == url[4]

\* re.match(r'git@([^:]+):', git_url)
extract_hostname_from_git_url(git_url) ==
    IF Len(git_url) >= 3 /\ git_url[1] = "git@" /\ git_url[2] # ":" /\ git_url[3] = ":"
    THEN git_url[2]
    ELSE None

\* ------------------------------------------------------- working repository
NoDir == [exists |-> FALSE, repo |-> FALSE, remotes |-> EmptyFn, lheads |-> EmptyFn,
          ltags |-> EmptyFn, head |-> NoHead, objs |-> {}]
\* Mutant of FreshDir: the directory is created over what was there.
DirtyDir == [NoDir EXCEPT !.exists = TRUE, !.lheads = [n \in {<<"a">>} |-> "A1"],
                         !.ltags = [t \in {"v1"} |-> "A1"], !.objs = {"B", "A1"}]
FreshDir == [NoDir EXCEPT !.exists = TRUE]
\* What an earlier pass may have left at local_workspace.
StaleDir == [exists |-> TRUE, repo |-> TRUE,
             remotes |-> [n \in {"origin", "mirror"} |-> IF n = "origin" THEN "m.git" ELSE "o.git"],
             lheads |-> [n \in {<<"a">>} |-> "A1"],
             ltags |-> [t \in {"v1"} |-> "A1"],
             head |-> <<"a">>, objs |-> {"B", "A1"}]

\* ---------------------------------------------------------- git commands
ExitCodes == {0, 1}

\* The branch path a refspec name resolves to on a remote: refs/heads/<name>.
HeadPath(b) == <<b>>
\* ref_part.split('/')[-1]
Leaf(path) == path[Len(path)]

\* git ls-remote -h: one line <<commit, path>> per branch, sorted by path.
RECURSIVE ListingFrom(_, _)
ListingFrom(hs, i) ==
    IF i > Len(PathList) THEN <<>>
    ELSE IF PathList[i] \in DOMAIN hs
         THEN <<(<<hs[PathList[i]], PathList[i]>>)>> \o ListingFrom(hs, i + 1)
         ELSE ListingFrom(hs, i + 1)
LsRemote(repo) == ListingFrom(heads[repo], 1)

\* d[k] = v on a Python dict: a new key goes last, a known key keeps its place.
DictSet(d, k, v) ==
    IF k \in Keys(d)
    THEN [i \in 1..Len(d) |-> IF d[i][1] = k THEN <<k, v>> ELSE d[i]]
    ELSE Append(d, <<k, v>>)

RECURSIVE BuildDictFrom(_, _, _)
\* The loop over the listing's lines that fills a branches dict.
BuildDictFrom(lines, i, d) ==
    IF i > Len(lines) THEN d
    ELSE BuildDictFrom(lines, i + 1, DictSet(d, Leaf(lines[i][2]), lines[i][1]))
BuildDict(lines) == BuildDictFrom(lines, 1, <<>>)

\* The merge commit of two diverged commits.
MergeCommit(x, y) == CHOOSE c \in Commits : Parents(c) = {x, y}

\* Tags git fetch follows on its own when the refspec has a destination:
\* tags of the remote that are not local and point at an object now present.
FollowTags(w, repo, objs) ==
    [t \in DOMAIN w.ltags \cup {u \in DOMAIN tags[repo] : tags[repo][u] \in objs} |->
        IF t \in DOMAIN w.ltags THEN w.ltags[t] ELSE tags[repo][t]]

\* git fetch <remote> b:b --force
FetchBranchOk(w, rn, b) ==
    /\ rn \in DOMAIN w.remotes
    /\ HeadPath(b) \in DOMAIN heads[w.remotes[rn]]
    /\ w.head # b
FetchBranch(w, rn, b) ==
    LET repo == w.remotes[rn]
        c == heads[repo][HeadPath(b)]
        objs == w.objs \cup Ancestry(c)
    IN  [w EXCEPT !.lheads = Put(@, b, c), !.objs = objs, !.ltags = FollowTags(w, repo, objs)]

\* git switch b
SwitchOk(w, b) == b \in DOMAIN w.lheads
Switch(w, b) == [w EXCEPT !.head = b]

\* Mutant of Pull: the remote's b is fetched and not merged.
PullFetchOnly(w, rn, b) ==
    [w EXCEPT !.objs = @ \cup Ancestry(heads[w.remotes[rn]][HeadPath(b)])]

\* git pull <remote> b --no-edit: fetch the remote's b and merge it into the
\* current branch. Up to date, fast-forward, or a merge commit.
PullOk(w, rn, b) ==
    /\ rn \in DOMAIN w.remotes
    /\ HeadPath(b) \in DOMAIN heads[w.remotes[rn]]
    /\ w.head \in DOMAIN w.lheads
Pull(w, rn, b) ==
    LET theirs == heads[w.remotes[rn]][HeadPath(b)]
        ours == w.lheads[w.head]
        result == IF theirs \in Ancestry(ours) THEN ours
                  ELSE IF ours \in Ancestry(theirs) THEN theirs
                  ELSE MergeCommit(ours, theirs)
    IN  [w EXCEPT !.lheads = Put(@, w.head, result),
                  !.objs = @ \cup Ancestry(theirs) \cup {result}]

\* Mutant of PushBranch: the remote's branch is left as it was.
PushBranchDropped(w, rn, b) == heads

\* Mutant of PushOk: the push is accepted whatever the remote's branch holds.
PushOkForced(w, rn, b) ==
    /\ rn \in DOMAIN w.remotes
    /\ b \in DOMAIN w.lheads

\* git push <remote> b: accepted when it creates the branch or fast-forwards it.
PushOk(w, rn, b) ==
    /\ rn \in DOMAIN w.remotes
    /\ b \in DOMAIN w.lheads
    /\ LET hs == heads[w.remotes[rn]]
       IN  HeadPath(b) \in DOMAIN hs => hs[HeadPath(b)] \in Ancestry(w.lheads[b])
\* Mutant of PushBranch: the branch is sent to the other remote as well.
PushBranchBothRemotes(w, rn, b) ==
    [r \in Repos |-> IF r \in {w.remotes[n] : n \in DOMAIN w.remotes}
                     THEN Put(heads[r], HeadPath(b), w.lheads[b])
                     ELSE heads[r]]

PushBranch(w, rn, b) ==
    [heads EXCEPT ![w.remotes[rn]] = Put(@, HeadPath(b), w.lheads[b])]

\* git fetch <remote> --tags: a tag that is new locally is stored; a local tag
\* that differs is kept and the fetch is rejected for it (would clobber).
TagsClobber(w, rn) ==
    \E t \in DOMAIN w.ltags \cap DOMAIN tags[w.remotes[rn]] :
        w.ltags[t] # tags[w.remotes[rn]][t]
FetchTags(w, rn) ==
    LET rt == tags[w.remotes[rn]]
        hs == heads[w.remotes[rn]]
    IN  [w EXCEPT !.ltags = [t \in DOMAIN w.ltags \cup DOMAIN rt |->
                                IF t \in DOMAIN w.ltags THEN w.ltags[t] ELSE rt[t]],
                  !.objs = @ \cup UNION {Ancestry(rt[t]) : t \in DOMAIN rt}
                             \cup UNION {Ancestry(hs[p]) : p \in DOMAIN hs}]

\* The options of the last push as the list literal spells them: the two
\* adjacent string literals "-f" "--tags" are one list element.
PushTagsArgs == <<"-f--tags">>

\* git push <remote> <options>: transfers the tags only under --tags, and
\* overwrites a differing tag of the remote only under -f as well.
PushTags(w, rn, opts) ==
    LET rt == tags[w.remotes[rn]]
        sent == IF "--tags" \in Range(opts)
                THEN IF "-f" \in Range(opts)
                     THEN DOMAIN w.ltags
                     ELSE DOMAIN w.ltags \ DOMAIN rt
                ELSE {}
    IN  [tags EXCEPT ![w.remotes[rn]] =
            [t \in DOMAIN rt \cup sent |-> IF t \in sent THEN w.ltags[t] ELSE rt[t]]]


\* -------------------------------------------------------------- the pass
envVars == <<heads, tags, config>>
auxVars == <<written, logger, fs, thr, clock, ssh, fetch>>
mainVars == <<mpc, returncode, mainRet, heads0, tags0, started>>
dictVars == <<originDict, mirrorDict>>
listVars == <<added, updated, idx>>

\* Mutant of ExceptionCaught: the except clause returns the success code.
ExceptionCaughtAsSuccess == 1 - 1

\* The pass's return codes, by the return statement that yields them.
ExceptionCaught == -1
GitInitFailed == -4
RemoteAddOriginFailed == -5
RemoteAddMirrorFailed == -6
LsRemoteOriginFailed == -7
\* Mutant of LsRemoteMirrorFailed: the code of the other listing.
LsRemoteMirrorFailedAsOrigin == LsRemoteOriginFailed
LsRemoteMirrorFailed == -8
FetchMirrorBranchFailed == -9
SwitchFailed == -10
PushMirrorBranchFailed == -11
\* Mutant of MergeConflict: the code of the push that follows the merge.
MergeConflictAsPushFailed == PushMirrorBranchFailed
MergeConflict == -101
FetchOriginBranchFailed == -12
\* Mutant of PushAddedBranchFailed: the code of the other push.
PushAddedBranchFailedAsUpdated == PushMirrorBranchFailed
PushAddedBranchFailed == -13
FetchMirrorTagsFailed == -14
FetchOriginTagsFailed == -15
PushTagsFailed == -16
Success == 0

\* What a call of Logger.error is given: the text of the f-string and the
\* values it interpolates, each with what it is.
Message(text, values) == [text |-> text, values |-> values]
NoMessage == Message("", <<>>)
Val(kind, v) == [kind |-> kind, v |-> v]

Cmd(op, remote, arg, rc) == [op |-> op, remote |-> remote, arg |-> arg, rc |-> rc]

\* Mutant of Return: the failed step is run again instead of ending the pass.
ReturnAndRetry(code, msg) ==
    /\ ret' = <<code>>
    /\ pc' = pc
    /\ cwd' = savedCwd
    /\ logged' = msg

\* Mutant of Return: the finally clause does not change the directory back.
ReturnWhereItIs(code, msg) ==
    /\ ret' = <<code>>
    /\ pc' = "done"
    /\ cwd' = cwd
    /\ logged' = msg

\* return <code> inside the try block: the finally clause restores the
\* working directory from the local variable cwd.
Return(code, msg) ==
    /\ ret' = <<code>>
    /\ pc' = "done"
    /\ cwd' = savedCwd
    /\ logged' = msg

\* Mutant of BranchPc: the loop over the added branches is left out.
BranchPcSkipAdded(upd, add, i, j) ==
    IF i <= Len(upd) THEN "fetch_mirror_branch"
    ELSE "fetch_mirror_tags"

\* Where the branch phase goes next: the updated loop from branch i, then
\* the added loop from branch j, then the tags.
BranchPc(upd, add, i, j) ==
    IF i <= Len(upd) THEN "fetch_mirror_branch"
    ELSE IF j <= Len(add) THEN "fetch_origin_branch"
    ELSE "fetch_mirror_tags"

\* Lines 68-78. A return before cwd is assigned makes the finally clause
\* read an unbound local: the UnboundLocalError leaves the function.
ConfigureSsh ==
    /\ pc = "start"
    /\ \E configured \in BOOLEAN :
         IF extract_hostname_from_git_url(params.origin) # None /\ configured
         THEN /\ savedCwd' = cwd
              /\ pc' = "init_workspace"
              /\ UNCHANGED logged
         ELSE /\ pc' = "raised"
              /\ logged' = IF extract_hostname_from_git_url(params.origin) # None
                           THEN Message("Failed to configure SSH host for {hostname}",
                                        <<Val("hostname",
                                              extract_hostname_from_git_url(params.origin))>>)
                           ELSE logged
              /\ UNCHANGED savedCwd
    /\ UNCHANGED <<envVars, auxVars, mainVars, params, cwd, work, dictVars, listVars, cmds, ret>>

\* Stage 1, lines 84-92: delete the workspace if it exists and create it;
\* an OSError is caught by the except clause.
InitWorkspace ==
    /\ pc = "init_workspace"
    /\ \/ /\ work' = FreshDir
          /\ pc' = "chdir"
          /\ UNCHANGED <<ret, cwd, logged>>
       \/ /\ work' \in {work, NoDir}
          /\ Return(ExceptionCaught, Message("Error: {e}", <<Val("exception", "OSError")>>))
    /\ UNCHANGED <<envVars, auxVars, mainVars, params, savedCwd, dictVars, listVars, cmds>>

\* Line 98
ChdirWorkspace ==
    /\ pc = "chdir"
    /\ cwd' = "workspace"
    /\ pc' = "git_init"
    /\ UNCHANGED <<envVars, auxVars, mainVars, params, savedCwd, work, dictVars, listVars, cmds, ret, logged>>

\* Lines 100-109
GitInit ==
    /\ pc = "git_init"
    /\ \E rc \in ExitCodes :
         /\ cmds' = Append(cmds, Cmd("init", None, <<"--initial-branch=false">>, rc))
         /\ IF rc # 0
            THEN Return(GitInitFailed, Message("Failed to git init", <<>>)) /\ UNCHANGED work
            ELSE /\ work' = [work EXCEPT !.repo = TRUE]
                 /\ pc' = "remote_add_origin"
                 /\ UNCHANGED <<ret, cwd, logged>>
    /\ UNCHANGED <<envVars, auxVars, mainVars, params, savedCwd, dictVars, listVars>>

\* Lines 111-122
RemoteAddOrigin ==
    /\ pc = "remote_add_origin"
    /\ \E rc \in ExitCodes :
         /\ rc = 0 => "origin" \notin DOMAIN work.remotes
         /\ cmds' = Append(cmds, Cmd("remote add", "origin", params.origin, rc))
         /\ IF rc # 0
            THEN Return(RemoteAddOriginFailed, Message("Failed to add origin repo url as remote", <<>>)) /\ UNCHANGED work
            ELSE /\ work' = [work EXCEPT !.remotes = Put(@, "origin", RepoOf(params.origin))]
                 /\ pc' = "remote_add_mirror"
                 /\ UNCHANGED <<ret, cwd, logged>>
    /\ UNCHANGED <<envVars, auxVars, mainVars, params, savedCwd, dictVars, listVars>>

\* Lines 124-137
RemoteAddMirror ==
    /\ pc = "remote_add_mirror"
    /\ \E rc \in ExitCodes :
         /\ rc = 0 => "mirror" \notin DOMAIN work.remotes
         /\ cmds' = Append(cmds, Cmd("remote add", "mirror", params.mirror, rc))
         /\ IF rc # 0
            THEN Return(RemoteAddMirrorFailed, Message("Failed to add mirror repo url as remote", <<>>)) /\ UNCHANGED work
            ELSE /\ work' = [work EXCEPT !.remotes = Put(@, "mirror", RepoOf(params.mirror))]
                 /\ pc' = "ls_remote_origin"
                 /\ UNCHANGED <<ret, cwd, logged>>
    /\ UNCHANGED <<envVars, auxVars, mainVars, params, savedCwd, dictVars, listVars>>

\* Lines 142-159. The output is what the git process printed: a line of it
\* that does not split into two fields makes line 157 raise ValueError,
\* which the except clause catches.
LsRemoteOrigin ==
    /\ pc = "ls_remote_origin"
    /\ \E rc \in ExitCodes, two_fields \in BOOLEAN :
         /\ cmds' = Append(cmds, Cmd("ls-remote", "origin", <<"-h">>, rc))
         /\ rc # 0 => two_fields
         /\ IF rc # 0
            THEN Return(LsRemoteOriginFailed, Message("Failed to ls-remote origin repo branches", <<>>)) /\ UNCHANGED originDict
            ELSE IF ~two_fields
            THEN Return(ExceptionCaught, Message("Error: {e}", <<Val("exception", "ValueError")>>)) /\ UNCHANGED originDict
            ELSE /\ originDict' = BuildDict(LsRemote(work.remotes["origin"]))
                 /\ pc' = "ls_remote_mirror"
                 /\ UNCHANGED <<ret, cwd, logged>>
    /\ UNCHANGED <<envVars, auxVars, mainVars, params, savedCwd, work, mirrorDict, listVars>>

\* Lines 161-178, with line 176 as line 157 above.
LsRemoteMirror ==
    /\ pc = "ls_remote_mirror"
    /\ \E rc \in ExitCodes, two_fields \in BOOLEAN :
         /\ cmds' = Append(cmds, Cmd("ls-remote", "mirror", <<"-h">>, rc))
         /\ rc # 0 => two_fields
         /\ IF rc # 0
            THEN Return(LsRemoteMirrorFailed, Message("Failed to ls-remote mirror repo branches", <<>>)) /\ UNCHANGED mirrorDict
            ELSE IF ~two_fields
            THEN Return(ExceptionCaught, Message("Error: {e}", <<Val("exception", "ValueError")>>)) /\ UNCHANGED mirrorDict
            ELSE /\ mirrorDict' = BuildDict(LsRemote(work.remotes["mirror"]))
                 /\ pc' = "classify"
                 /\ UNCHANGED <<ret, cwd, logged>>
    /\ UNCHANGED <<envVars, auxVars, mainVars, params, savedCwd, work, originDict, listVars>>

\* Lines 180-186
Classify ==
    /\ pc = "classify"
    /\ LET changes == get_origin_branch_changes(originDict, mirrorDict, params.rules)
       IN  /\ added' = changes.originAdded
           /\ updated' = changes.originUpdated
           /\ idx' = 1
           /\ pc' = BranchPc(changes.originUpdated, changes.originAdded, 1, 1)
    /\ UNCHANGED <<envVars, auxVars, mainVars, params, cwd, savedCwd, work, dictVars, cmds, ret, logged>>


\* Lines 190-203: an updated branch, fetch the mirror's version of it
FetchMirrorBranch ==
    /\ pc = "fetch_mirror_branch"
    /\ LET b == updated[idx]
       IN  \E rc \in ExitCodes :
             /\ rc = 0 => FetchBranchOk(work, "mirror", b)
             /\ cmds' = Append(cmds, Cmd("fetch", "mirror", b, rc))
             /\ IF rc # 0
                THEN Return(FetchMirrorBranchFailed, Message("Failed to fetch mirror remote branch {b}", <<Val("branch", b)>>)) /\ UNCHANGED work
                ELSE /\ work' = FetchBranch(work, "mirror", b)
                     /\ pc' = "switch_branch"
                     /\ UNCHANGED <<ret, cwd, logged>>
    /\ UNCHANGED <<envVars, auxVars, mainVars, params, savedCwd, dictVars, listVars>>

\* Mutant of SwitchBranch: the branch is pushed right after the switch,
\* without the pull from the origin.
SwitchBranchThenPush ==
    /\ pc = "switch_branch"
    /\ LET b == updated[idx]
       IN  \E rc \in ExitCodes :
             /\ rc = 0 => SwitchOk(work, b)
             /\ cmds' = Append(cmds, Cmd("switch", None, b, rc))
             /\ IF rc # 0
                THEN Return(SwitchFailed, Message("Failed to swith to branch: {b}", <<Val("branch", b)>>)) /\ UNCHANGED work
                ELSE /\ work' = Switch(work, b)
                     /\ pc' = "push_mirror_branch"
                     /\ UNCHANGED <<ret, cwd, logged>>
    /\ UNCHANGED <<envVars, auxVars, mainVars, params, savedCwd, dictVars, listVars>>

\* Lines 205-213
SwitchBranch ==
    /\ pc = "switch_branch"
    /\ LET b == updated[idx]
       IN  \E rc \in ExitCodes :
             /\ rc = 0 => SwitchOk(work, b)
             /\ cmds' = Append(cmds, Cmd("switch", None, b, rc))
             /\ IF rc # 0
                THEN Return(SwitchFailed, Message("Failed to swith to branch: {b}", <<Val("branch", b)>>)) /\ UNCHANGED work
                ELSE /\ work' = Switch(work, b)
                     /\ pc' = "pull_origin_branch"
                     /\ UNCHANGED <<ret, cwd, logged>>
    /\ UNCHANGED <<envVars, auxVars, mainVars, params, savedCwd, dictVars, listVars>>

\* Lines 215-226: a merge that does not resolve exits non-zero
PullOriginBranch ==
    /\ pc = "pull_origin_branch"
    /\ LET b == updated[idx]
       IN  \E rc \in ExitCodes :
             /\ rc = 0 => PullOk(work, "origin", b)
             /\ cmds' = Append(cmds, Cmd("pull", "origin", b, rc))
             /\ IF rc # 0
                THEN Return(MergeConflict, Message("Failed to pull (auto merge) changes of origin {origin_repo_url} branch {b} into mirror {mirror_repo_url}",
                            <<Val("url", params.origin), Val("branch", b), Val("url", params.mirror)>>)) /\ UNCHANGED work
                ELSE /\ work' = Pull(work, "origin", b)
                     /\ pc' = "push_mirror_branch"
                     /\ UNCHANGED <<ret, cwd, logged>>
    /\ UNCHANGED <<envVars, auxVars, mainVars, params, savedCwd, dictVars, listVars>>

\* Lines 228-237, and the loop's step to the next updated branch
PushMirrorBranch ==
    /\ pc = "push_mirror_branch"
    /\ LET b == updated[idx]
       IN  \E rc \in ExitCodes :
             /\ rc = 0 => PushOk(work, "mirror", b)
             /\ cmds' = Append(cmds, Cmd("push", "mirror", b, rc))
             /\ IF rc # 0
                THEN Return(PushMirrorBranchFailed, Message("Failed to push branch {b} to mirror {mirror_remote_name}",
                            <<Val("branch", b), Val("remote", "mirror"), Val("remote", "mirror")>>)) /\ UNCHANGED <<heads, idx>>
                ELSE /\ heads' = PushBranch(work, "mirror", b)
                     /\ idx' = IF idx < Len(updated) THEN idx + 1 ELSE 1
                     /\ pc' = BranchPc(updated, added, idx + 1, 1)
                     /\ UNCHANGED <<ret, cwd, logged>>
    /\ UNCHANGED <<tags, config, auxVars, mainVars, params, savedCwd, work, dictVars, added, updated>>

\* Lines 241-254: an added branch, fetch it from the origin
FetchOriginBranch ==
    /\ pc = "fetch_origin_branch"
    /\ LET b == added[idx]
       IN  \E rc \in ExitCodes :
             /\ rc = 0 => FetchBranchOk(work, "origin", b)
             /\ cmds' = Append(cmds, Cmd("fetch", "origin", b, rc))
             /\ IF rc # 0
                THEN Return(FetchOriginBranchFailed, Message("Failed to fetch origin remote added branch {b}", <<Val("branch", b)>>)) /\ UNCHANGED work
                ELSE /\ work' = FetchBranch(work, "origin", b)
                     /\ pc' = "push_added_branch"
                     /\ UNCHANGED <<ret, cwd, logged>>
    /\ UNCHANGED <<envVars, auxVars, mainVars, params, savedCwd, dictVars, listVars>>

\* Lines 256-265, and the loop's step to the next added branch
PushAddedBranch ==
    /\ pc = "push_added_branch"
    /\ LET b == added[idx]
       IN  \E rc \in ExitCodes :
             /\ rc = 0 => PushOk(work, "mirror", b)
             /\ cmds' = Append(cmds, Cmd("push", "mirror", b, rc))
             /\ IF rc # 0
                THEN Return(PushAddedBranchFailed, Message("Failed to push origin remote added branch {b} on mirror",
                            <<Val("branch", b), Val("remote", "mirror"), Val("branch", b)>>)) /\ UNCHANGED <<heads, idx>>
                ELSE /\ heads' = PushBranch(work, "mirror", b)
                     /\ idx' = IF idx < Len(added) THEN idx + 1 ELSE idx
                     /\ pc' = BranchPc(updated, added, Len(updated) + 1, idx + 1)
                     /\ UNCHANGED <<ret, cwd, logged>>
    /\ UNCHANGED <<tags, config, auxVars, mainVars, params, savedCwd, work, dictVars, added, updated>>

\* Mutant of FetchMirrorTags: a failed fetch puts the destination's
\* branches back where they were when the pass started.
FetchMirrorTagsRollingBack ==
    /\ pc = "fetch_mirror_tags"
    /\ \E rc \in ExitCodes :
         /\ rc = 0 => ~TagsClobber(work, "mirror")
         /\ cmds' = Append(cmds, Cmd("fetch", "mirror", <<"--tags">>, rc))
         /\ IF rc # 0
            THEN /\ Return(FetchMirrorTagsFailed, Message("Failed to fetch tags on mirror", <<>>))
                 /\ work' \in {work} \cup (IF TagsClobber(work, "mirror")
                                           THEN {FetchTags(work, "mirror")} ELSE {})
                 /\ heads' = heads0
            ELSE /\ work' = FetchTags(work, "mirror")
                 /\ pc' = "fetch_origin_tags"
                 /\ UNCHANGED <<ret, cwd, logged, heads>>
    /\ UNCHANGED <<tags, config, auxVars, mainVars, params, savedCwd, dictVars, listVars>>

\* Lines 267-277
FetchMirrorTags ==
    /\ pc = "fetch_mirror_tags"
    /\ \E rc \in ExitCodes :
         /\ rc = 0 => ~TagsClobber(work, "mirror")
         /\ cmds' = Append(cmds, Cmd("fetch", "mirror", <<"--tags">>, rc))
         /\ IF rc # 0
            THEN /\ Return(FetchMirrorTagsFailed, Message("Failed to fetch tags on mirror", <<>>))
                 /\ work' \in {work} \cup (IF TagsClobber(work, "mirror")
                                           THEN {FetchTags(work, "mirror")} ELSE {})
            ELSE /\ work' = FetchTags(work, "mirror")
                 /\ pc' = "fetch_origin_tags"
                 /\ UNCHANGED <<ret, cwd, logged>>
    /\ UNCHANGED <<envVars, auxVars, mainVars, params, savedCwd, dictVars, listVars>>

\* Lines 279-289
FetchOriginTags ==
    /\ pc = "fetch_origin_tags"
    /\ \E rc \in ExitCodes :
         /\ rc = 0 => ~TagsClobber(work, "origin")
         /\ cmds' = Append(cmds, Cmd("fetch", "origin", <<"--tags">>, rc))
         /\ IF rc # 0
            THEN /\ Return(FetchOriginTagsFailed, Message("Failed to fetch tags on origin", <<>>))
                 /\ work' \in {work} \cup (IF TagsClobber(work, "origin")
                                           THEN {FetchTags(work, "origin")} ELSE {})
            ELSE /\ work' = FetchTags(work, "origin")
                 /\ pc' = "push_tags"
                 /\ UNCHANGED <<ret, cwd, logged>>
    /\ UNCHANGED <<envVars, auxVars, mainVars, params, savedCwd, dictVars, listVars>>

\* Lines 291-304. git 2.39 answers the joined option with status 129; the
\* status is the environment's here as for every other command, so that the
\* code behind a zero status is part of the model.
PushTagsToMirror ==
    /\ pc = "push_tags"
    /\ \E rc \in ExitCodes :
         /\ cmds' = Append(cmds, Cmd("push", "mirror", PushTagsArgs, rc))
         /\ IF rc # 0
            THEN Return(PushTagsFailed, Message("Failed to push tags on mirror", <<>>)) /\ UNCHANGED tags
            ELSE /\ tags' = PushTags(work, "mirror", PushTagsArgs)
                 /\ Return(Success, NoMessage)
    /\ UNCHANGED <<heads, config, auxVars, mainVars, params, savedCwd, work, dictVars, listVars>>

\* ----------------------------------------------------------------- main
\* Mutant of StartPass: the accept rules of the origin are used whatever the
\* caller hands over.
StartPassOriginRules(origin_repo_url, mirror_repo_url, accept_rules) ==
    /\ params' = [origin |-> origin_repo_url, mirror |-> mirror_repo_url,
                  rules |-> config.originRules]
    /\ pc' = "start"
    /\ savedCwd' = None
    /\ originDict' = <<>>
    /\ mirrorDict' = <<>>
    /\ added' = <<>>
    /\ updated' = <<>>
    /\ idx' = 1
    /\ cmds' = <<>>
    /\ ret' = NoValue
    /\ heads0' = heads
    /\ tags0' = tags
    /\ logged' = NoMessage
    /\ started' = Append(started, params')

\* What a call of try_sync_origin_updates_into_mirror starts from.
StartPass(origin_repo_url, mirror_repo_url, accept_rules) ==
    /\ params' = [origin |-> origin_repo_url, mirror |-> mirror_repo_url,
                  rules |-> accept_rules]
    /\ pc' = "start"
    /\ savedCwd' = None
    /\ originDict' = <<>>
    /\ mirrorDict' = <<>>
    /\ added' = <<>>
    /\ updated' = <<>>
    /\ idx' = 1
    /\ cmds' = <<>>
    /\ ret' = NoValue
    /\ heads0' = heads
    /\ tags0' = tags
    /\ logged' = NoMessage
    /\ started' = Append(started, params')

passVars == <<params, pc, savedCwd, originDict, mirrorDict, added, updated, idx, cmds, ret,
              heads0, tags0, logged, started>>

\* Lines 313-343: read the configuration; the loop over the pairs leaves
\* origin_repo_url and mirror_repo_url at the last pair. With no pair the
\* names are unbound and the NameError is caught at line 353.
MainStart ==
    /\ mpc = "start"
    /\ IF Len(config.pairs) = 0
       THEN /\ mainRet' = <<-1>>
            /\ mpc' = "exit"
            /\ UNCHANGED passVars
       ELSE /\ StartPass(config.pairs[Len(config.pairs)].origin,
                         config.pairs[Len(config.pairs)].mirror, config.originRules)
            /\ mpc' = "first"
            /\ UNCHANGED mainRet
    /\ UNCHANGED <<envVars, auxVars, returncode, cwd, work>>

\* Lines 343-347: the first pass is over
MainFirstPassDone ==
    /\ mpc = "first"
    /\ pc \in {"done", "raised"}
    /\ IF pc = "raised"
       THEN /\ mainRet' = <<-1>>
            /\ mpc' = "exit"
            /\ UNCHANGED <<returncode, passVars>>
       ELSE /\ returncode' = ret
            /\ IF ret # <<0>>
               THEN /\ mainRet' = ret
                    /\ mpc' = "exit"
                    /\ UNCHANGED passVars
               ELSE /\ StartPass(params.mirror, params.origin, config.mirrorRules)
                    /\ mpc' = "second"
                    /\ UNCHANGED mainRet
    /\ UNCHANGED <<envVars, auxVars, cwd, work>>

\* Lines 347-355: the second pass is over
MainSecondPassDone ==
    /\ mpc = "second"
    /\ pc \in {"done", "raised"}
    /\ mainRet' = IF pc = "raised" THEN <<-1>>
                  ELSE IF ret # <<0>> THEN returncode
                  ELSE <<0>>
    /\ mpc' = "exit"
    /\ UNCHANGED <<envVars, auxVars, returncode, passVars, cwd, work>>


\* ---------------------------------------------------------------- Logger
Threads == 1..NumThreads
Times == 1..MaxClock
\* The first line of a log file, and the line of one info/warning/error call.
Header(utc_str) == [by |-> 0, call |-> 0, at |-> utc_str]
Entry(t, n, ts) == [by |-> t, call |-> n, at |-> ts]

\* Class attributes as the class body sets them (lines 9-14).
LoggerUnset == [initialized |-> FALSE, file_path |-> 0, lock_path |-> 0, init_lock |-> 0]
\* A thread between two calls.
ThreadIdle == [pc |-> "idle", calls |-> 0, utc_str |-> 0, ts |-> 0, lock |-> 0,
               written |-> 0, dropped |-> 0]
\* files: the log files by the time in their name; held: the holder of each
\* lock file; created: the log files opened with mode "w", in order.
FsEmpty == [files |-> EmptyFn, held |-> [u \in Times |-> 0], created |-> <<>>]

LoggerIdle ==
    /\ logger = LoggerUnset
    /\ fs = FsEmpty
    /\ thr = [t \in Threads |-> ThreadIdle]
    /\ clock = 1

syncVars == <<heads, tags, config, mpc, returncode, mainRet, params, pc, cwd, savedCwd,
              work, originDict, mirrorDict, added, updated, idx, cmds, ret, heads0, tags0,
              logged, written, started>>

\* datetime.now() moves on.
Tick ==
    /\ clock < MaxClock
    /\ clock' = clock + 1
    /\ UNCHANGED <<syncVars, fetch, ssh, logger, fs, thr>>

\* Mutant of InitCheck: the flag is not looked at.
InitCheckIgnoringFlag(t) ==
    /\ thr[t].pc = "init_check"
    /\ thr' = [thr EXCEPT ![t].pc = "init_paths"]
    /\ UNCHANGED <<syncVars, fetch, ssh, logger, fs, clock>>

\* Line 21: a thread calls Logger.init and takes _init_lock.
InitAcquire(t) ==
    /\ thr[t].pc = "idle"
    /\ thr[t].calls < MaxCalls
    /\ logger.init_lock = 0
    /\ logger' = [logger EXCEPT !.init_lock = t]
    /\ thr' = [thr EXCEPT ![t].pc = "init_check", ![t].calls = @ + 1]
    /\ UNCHANGED <<syncVars, fetch, ssh, fs, clock>>

\* Lines 22-24: a later call returns at once (the with statement releases
\* the lock).
InitCheck(t) ==
    /\ thr[t].pc = "init_check"
    /\ IF logger.initialized
       THEN /\ logger' = [logger EXCEPT !.init_lock = 0]
            /\ thr' = [thr EXCEPT ![t].pc = "idle"]
       ELSE /\ thr' = [thr EXCEPT ![t].pc = "init_paths"]
            /\ UNCHANGED logger
    /\ UNCHANGED <<syncVars, fetch, ssh, fs, clock>>

\* Lines 27-31
InitPaths(t) ==
    /\ thr[t].pc = "init_paths"
    /\ logger' = [logger EXCEPT !.file_path = clock, !.lock_path = clock]
    /\ thr' = [thr EXCEPT ![t].pc = "init_remove", ![t].utc_str = clock]
    /\ UNCHANGED <<syncVars, fetch, ssh, fs, clock>>

\* Lines 34-35
InitRemove(t) ==
    /\ thr[t].pc = "init_remove"
    /\ fs' = [fs EXCEPT !.files = [u \in DOMAIN @ \ {logger.file_path} |-> @[u]]]
    /\ thr' = [thr EXCEPT ![t].pc = "init_lock"]
    /\ UNCHANGED <<syncVars, fetch, ssh, logger, clock>>

\* Lines 38-39: FileLock(cls._lock_path) is acquired when nobody holds it.
InitFileLock(t) ==
    /\ thr[t].pc = "init_lock"
    /\ fs.held[logger.lock_path] = 0
    /\ fs' = [fs EXCEPT !.held[logger.lock_path] = t]
    /\ thr' = [thr EXCEPT ![t].pc = "init_open", ![t].lock = logger.lock_path]
    /\ UNCHANGED <<syncVars, fetch, ssh, logger, clock>>

\* Lines 40-43: mode "w" creates the file or empties it; the header is written.
InitOpenWrite(t) ==
    /\ thr[t].pc = "init_open"
    /\ fs' = [fs EXCEPT !.files = Put(@, logger.file_path, <<Header(thr[t].utc_str)>>),
                        !.created = Append(@, logger.file_path)]
    /\ thr' = [thr EXCEPT ![t].pc = "init_unlock"]
    /\ UNCHANGED <<syncVars, fetch, ssh, logger, clock>>

\* End of the with block of line 39
InitFileUnlock(t) ==
    /\ thr[t].pc = "init_unlock"
    /\ fs' = [fs EXCEPT !.held[thr[t].lock] = 0]
    /\ thr' = [thr EXCEPT ![t].pc = "init_flag", ![t].lock = 0]
    /\ UNCHANGED <<syncVars, fetch, ssh, logger, clock>>

\* Line 48, and the end of the with block of line 21
InitDone(t) ==
    /\ thr[t].pc = "init_flag"
    /\ logger' = [logger EXCEPT !.initialized = TRUE, !.init_lock = 0]
    /\ thr' = [thr EXCEPT ![t].pc = "idle"]
    /\ UNCHANGED <<syncVars, fetch, ssh, fs, clock>>

\* Lines 57-63 and 69-71: a thread calls info, warning or error. Before
\* Logger.init has set the flag the RuntimeError is caught, the warning is
\* printed and the call is over.
WriteStart(t) ==
    /\ thr[t].pc = "idle"
    /\ thr[t].calls < MaxCalls
    /\ IF logger.initialized
       THEN thr' = [thr EXCEPT ![t].pc = "write_lock", ![t].calls = @ + 1,
                               ![t].ts = clock, ![t].lock = logger.lock_path]
       ELSE thr' = [thr EXCEPT ![t].calls = @ + 1, ![t].dropped = @ + 1]
    /\ UNCHANGED <<syncVars, fetch, ssh, logger, fs, clock>>

\* Mutant of WriteFileLock: the lock is taken without waiting for its holder.
WriteFileLockFree(t) ==
    /\ thr[t].pc = "write_lock"
    /\ fs' = [fs EXCEPT !.held[thr[t].lock] = t]
    /\ thr' = [thr EXCEPT ![t].pc = "write_open"]
    /\ UNCHANGED <<syncVars, fetch, ssh, logger, clock>>

\* Line 64
WriteFileLock(t) ==
    /\ thr[t].pc = "write_lock"
    /\ fs.held[thr[t].lock] = 0
    /\ fs' = [fs EXCEPT !.held[thr[t].lock] = t]
    /\ thr' = [thr EXCEPT ![t].pc = "write_open"]
    /\ UNCHANGED <<syncVars, fetch, ssh, logger, clock>>

\* Lines 65-68: mode "a" puts the line at the end of the file.
WriteAppend(t) ==
    /\ thr[t].pc = "write_open"
    /\ fs' = [fs EXCEPT !.files =
                 Put(@, logger.file_path,
                     (IF logger.file_path \in DOMAIN @ THEN @[logger.file_path] ELSE <<>>)
                        \o <<Entry(t, thr[t].calls, thr[t].ts)>>)]
    /\ thr' = [thr EXCEPT ![t].pc = "write_unlock"]
    /\ UNCHANGED <<syncVars, fetch, ssh, logger, clock>>

\* End of the with block of line 64; the call returns.
WriteFileUnlock(t) ==
    /\ thr[t].pc = "write_unlock"
    /\ fs' = [fs EXCEPT !.held[thr[t].lock] = 0]
    /\ thr' = [thr EXCEPT ![t].pc = "idle", ![t].lock = 0, ![t].written = @ + 1]
    /\ UNCHANGED <<syncVars, fetch, ssh, logger, clock>>

\* ---------------------------------------------------- configure_ssh_host
\* A line of ~/.ssh/config: keyword and argument, with the keyword as it is
\* spelled at the start of the line ("Host", "host"), or the empty line.
Line(kw, arg) == [kw |-> kw, arg |-> arg]
HostLine(hostname) == Line("Host", hostname)
StrictNo == Line("    StrictHostKeyChecking", "no")
OtherSetting == Line("    User", "x")
BlankLine == Line("", "")
LineKinds == {HostLine("h"), HostLine("g"), Line("host", "g"), StrictNo, OtherSetting,
              BlankLine}
Hostnames == {"h", "g"}

\* The file: its lines, and whether the last one ends with a newline.
\* Absent while ~/.ssh/config does not exist.
Absent == [exists |-> FALSE, lines |-> <<>>, nl |-> FALSE]
File(lines, nl) == [exists |-> TRUE, lines |-> lines, nl |-> nl]
\* host_config, line 27
host_config(hostname) == <<HostLine(hostname), StrictNo>>

\* Line 42-43: host_pattern.search(content), the first line "Host <hostname>";
\* 0 when there is none.
HostMatch(lines, hostname) ==
    IF \E i \in 1..Len(lines) : lines[i] = HostLine(hostname)
    THEN CHOOSE i \in 1..Len(lines) :
            /\ lines[i] = HostLine(hostname)
            /\ \A j \in 1..(i - 1) : lines[j] # HostLine(hostname)
    ELSE 0
\* Lines 50-54: the first later line that starts with "Host" and white
\* space; the line after the last one when there is none.
NextHost(lines, i) ==
    IF \E j \in (i + 1)..Len(lines) : lines[j].kw = "Host"
    THEN CHOOSE j \in (i + 1)..Len(lines) :
            /\ lines[j].kw = "Host"
            /\ \A k \in (i + 1)..(j - 1) : lines[k].kw # "Host"
    ELSE Len(lines) + 1

\* Lines 30-79: the file configure_ssh_host leaves when it returns True.
configure_ssh_host(f, hostname) ==
    IF ~f.exists THEN File(host_config(hostname), TRUE)
    ELSE LET start == HostMatch(f.lines, hostname)
             end == NextHost(f.lines, start)
         IN  IF start # 0
             THEN IF \E k \in start..(end - 1) : f.lines[k] = StrictNo
                  THEN f
                  ELSE IF end <= Len(f.lines)
                       THEN File(SubSeq(f.lines, 1, start - 1) \o host_config(hostname)
                                    \o <<BlankLine>> \o SubSeq(f.lines, end, Len(f.lines)),
                                 f.nl)
                       ELSE File(SubSeq(f.lines, 1, start - 1) \o host_config(hostname)
                                    \o <<BlankLine>>, TRUE)
             ELSE File((IF f.nl \/ f.lines # <<>> THEN f.lines ELSE <<BlankLine>>)
                          \o host_config(hostname), TRUE)

SshIdle == ssh = [file |-> Absent, before |-> Absent, hostname |-> None,
                  result |-> None, calls |-> 0]

\* A call of configure_ssh_host: it returns True with the file rewritten, or
\* an OSError of a file operation is caught and it returns False (lines 81-83).
ConfigureSshHost ==
    /\ mpc = "ssh"
    /\ ssh.calls < MaxSshCalls
    /\ \E hostname \in Hostnames, ok \in BOOLEAN :
         ssh' = [file |-> IF ok THEN configure_ssh_host(ssh.file, hostname) ELSE ssh.file,
                 before |-> ssh.file, hostname |-> hostname,
                 result |-> IF ok THEN "True" ELSE "False", calls |-> ssh.calls + 1]
    /\ UNCHANGED <<syncVars, fetch, logger, fs, thr, clock>>

\* ------------------------------------------------------ fetch-git-repo.py
\* The values main returns, by the statement that sets them.
FetchAutocrlfFailed == -5
FetchConfigureFailed == -2
FetchNoHostname == -3
FetchGaveUp == -4
FetchUrls == {UrlO, UrlM, UrlOHttps}

\* main has not been called. handled is history: one record for each repo
\* the loop is through with; attempts is history: the calls of
\* try_fetch_git_repo for the current repo.
FetchIdle ==
    fetch = [pc |-> "idle", repos |-> <<>>, max_retry_times |-> 0, i |-> 1,
             failed_times |-> 0, attempts |-> 0, returncode |-> 0, ret |-> NoValue,
             handled |-> <<>>]

Handled(url, outcome, attempts, failed) ==
    [url |-> url, outcome |-> outcome, attempts |-> attempts, failed |-> failed]

\* Lines 197-226: the configuration is read and autocrlf switched off.
FetchMainStart ==
    /\ fetch.pc = "start"
    /\ \E rc \in ExitCodes :
         fetch' = IF rc # 0
                  THEN [fetch EXCEPT !.ret = <<FetchAutocrlfFailed>>, !.pc = "exit"]
                  ELSE [fetch EXCEPT !.returncode = 0, !.i = 1, !.pc = "repo"]
    /\ UNCHANGED <<syncVars, logger, fs, thr, clock, ssh>>

\* Lines 227-240 and 250: the head of the for loop, up to the while loop.
FetchNextRepo ==
    /\ fetch.pc = "repo"
    /\ IF fetch.i > Len(fetch.repos)
       THEN fetch' = [fetch EXCEPT !.ret = <<fetch.returncode>>, !.pc = "exit"]
       ELSE LET origin_repo_url == fetch.repos[fetch.i]
                hostname == extract_hostname_from_git_url(origin_repo_url)
            IN  \E configured \in BOOLEAN :
                  fetch' =
                    IF hostname # None
                    THEN IF ~configured
                         THEN [fetch EXCEPT !.returncode = FetchConfigureFailed,
                                            !.i = @ + 1,
                                            !.handled = Append(@, Handled(origin_repo_url,
                                                                   "not configured", 0, 0))]
                         ELSE [fetch EXCEPT !.failed_times = 0, !.attempts = 0,
                                            !.pc = IF 0 < fetch.max_retry_times
                                                   THEN "try" ELSE "tried"]
                    ELSE [fetch EXCEPT !.returncode = FetchNoHostname,
                                       !.i = @ + 1,
                                       !.handled = Append(@, Handled(origin_repo_url,
                                                              "no hostname", 0, 0))]
    /\ UNCHANGED <<syncVars, logger, fs, thr, clock, ssh>>

\* Mutant of FetchAttempt: the while loop goes on while failed_times is at
\* most max_retry_times.
FetchAttemptOnceMore ==
    /\ fetch.pc = "try"
    /\ \E fetched \in BOOLEAN :
         fetch' = IF fetched
                  THEN [fetch EXCEPT !.attempts = @ + 1, !.pc = "tried"]
                  ELSE [fetch EXCEPT !.attempts = @ + 1, !.failed_times = @ + 1,
                                     !.pc = IF fetch.failed_times + 1 <= fetch.max_retry_times
                                            THEN "try" ELSE "tried"]
    /\ UNCHANGED <<syncVars, logger, fs, thr, clock, ssh>>

\* Lines 241-245: one turn of the while loop; fetched is what
\* try_fetch_git_repo returns.
FetchAttempt ==
    /\ fetch.pc = "try"
    /\ \E fetched \in BOOLEAN :
         fetch' = IF fetched
                  THEN [fetch EXCEPT !.attempts = @ + 1, !.pc = "tried"]
                  ELSE [fetch EXCEPT !.attempts = @ + 1, !.failed_times = @ + 1,
                                     !.pc = IF fetch.failed_times + 1 < fetch.max_retry_times
                                            THEN "try" ELSE "tried"]
    /\ UNCHANGED <<syncVars, logger, fs, thr, clock, ssh>>

\* Lines 246-248: after the while loop.
FetchAfterRetries ==
    /\ fetch.pc = "tried"
    /\ fetch' = [fetch EXCEPT
                   !.returncode = IF fetch.failed_times >= fetch.max_retry_times
                                  THEN FetchGaveUp ELSE @,
                   !.i = @ + 1,
                   !.pc = "repo",
                   !.handled = Append(@, Handled(fetch.repos[fetch.i],
                                          IF fetch.failed_times >= fetch.max_retry_times
                                          THEN "gave up" ELSE "fetched",
                                          fetch.attempts, fetch.failed_times))]
    /\ UNCHANGED <<syncVars, logger, fs, thr, clock, ssh>>

\* Nothing but main and its passes is running.
AuxIdle ==
    /\ written = <<>>
    /\ LoggerIdle
    /\ SshIdle
    /\ FetchIdle

\* ------------------------------------------------------- specifications
\* The branch and tag maps a repository may start with.
MapsTo(D, C) == UNION {[X -> C] : X \in SUBSET D}
OriginTips == {"B", "A2"}
MirrorTips == {"B", "A1"}
OriginTagTips == {"A2"}
MirrorTagTips == {"A1", "A2"}

GoodPair == [origin |-> UrlO, mirror |-> UrlM]
PairLists == {<<>>, <<GoodPair>>, <<[origin |-> UrlOHttps, mirror |-> UrlM]>>,
              <<[origin |-> UrlO, mirror |-> UrlMHttps]>>,
              <<GoodPair, [origin |-> UrlM, mirror |-> UrlO]>>}
RuleLists == {<<RuleA>>, <<RuleAny>>}

Idle ==
    /\ params = [origin |-> UrlO, mirror |-> UrlM, rules |-> <<>>]
    /\ pc = "idle"
    /\ savedCwd = None
    /\ originDict = <<>>
    /\ mirrorDict = <<>>
    /\ added = <<>>
    /\ updated = <<>>
    /\ idx = 1
    /\ cmds = <<>>
    /\ ret = NoValue
    /\ heads0 = heads
    /\ tags0 = tags
    /\ logged = NoMessage
    /\ started = <<>>

Init ==
    /\ heads \in [Repos -> MapsTo(Paths, OriginTips \cup MirrorTips)]
    /\ heads["o.git"] \in MapsTo(Paths, OriginTips)
    /\ heads["m.git"] \in MapsTo(Paths, MirrorTips)
    /\ tags \in [Repos -> MapsTo(TagNames, OriginTagTips \cup MirrorTagTips)]
    /\ tags["o.git"] \in MapsTo(TagNames, OriginTagTips)
    /\ config \in [pairs : PairLists, originRules : RuleLists, mirrorRules : RuleLists]
    /\ config.originRules # config.mirrorRules
    /\ mpc = "start"
    /\ returncode = NoValue
    /\ mainRet = NoValue
    /\ cwd = "script"
    /\ work \in {NoDir, StaleDir}
    /\ AuxIdle
    /\ Idle

Pass ==
    \/ ConfigureSsh
    \/ InitWorkspace
    \/ ChdirWorkspace
    \/ GitInit
    \/ RemoteAddOrigin
    \/ RemoteAddMirror
    \/ LsRemoteOrigin
    \/ LsRemoteMirror
    \/ Classify
    \/ FetchMirrorBranch
    \/ SwitchBranch
    \/ PullOriginBranch
    \/ PushMirrorBranch
    \/ FetchOriginBranch
    \/ PushAddedBranch
    \/ FetchMirrorTags
    \/ FetchOriginTags
    \/ PushTagsToMirror

Next ==
    \/ MainStart
    \/ Pass
    \/ MainFirstPassDone
    \/ MainSecondPassDone

Spec == Init /\ [][Next]_vars


\* Another client of the destination repository: while a pass runs it creates
\* a branch there or moves one forward to a commit of its own.
WriterCommits == {"B", "A1", "A2"}
ExternalWrite ==
    /\ mpc \in {"first", "second"}
    /\ pc \notin {"done", "raised"}
    /\ Len(written) < MaxWrites
    /\ \E p \in Paths, c \in WriterCommits :
         /\ p \in DOMAIN heads[RepoOf(params.mirror)] =>
               /\ heads[RepoOf(params.mirror)][p] \in Ancestry(c)
               /\ heads[RepoOf(params.mirror)][p] # c
         /\ heads' = [heads EXCEPT ![RepoOf(params.mirror)] = Put(@, p, c)]
         /\ written' = Append(written, <<RepoOf(params.mirror), p, c>>)
    /\ UNCHANGED <<tags, config, mainVars, passVars, cwd, work, logger, fs, thr, clock, ssh,
                   fetch>>

InitWriter ==
    /\ Init
    /\ config.pairs = <<GoodPair>>
    /\ work = NoDir
    /\ tags = [r \in Repos |-> EmptyFn]

NextWriter ==
    \/ Next
    \/ ExternalWrite

SpecWriter == InitWriter /\ [][NextWriter]_vars


\* The two listings alone, on remotes whose branches may be nested
\* (refs/heads/f/a beside refs/heads/a); the pass is where line 142 finds it.
ListedPaths == {PathList[i] : i \in 1..Len(PathList)}
InitSnapshot ==
    /\ heads \in [Repos -> MapsTo(ListedPaths, {"A1", "A2"})]
    /\ tags = [r \in Repos |-> EmptyFn]
    /\ config = [pairs |-> <<GoodPair>>, originRules |-> <<RuleAny>>, mirrorRules |-> <<RuleA>>]
    /\ mpc = "first"
    /\ returncode = NoValue
    /\ mainRet = NoValue
    /\ cwd = "workspace"
    /\ work = [FreshDir EXCEPT !.repo = TRUE,
                   !.remotes = [n \in {"origin", "mirror"} |->
                                   IF n = "origin" THEN "o.git" ELSE "m.git"]]
    /\ AuxIdle
    /\ params = [origin |-> UrlO, mirror |-> UrlM, rules |-> <<RuleAny>>]
    /\ pc = "ls_remote_origin"
    /\ savedCwd = "script"
    /\ originDict = <<>>
    /\ mirrorDict = <<>>
    /\ added = <<>>
    /\ updated = <<>>
    /\ idx = 1
    /\ cmds = << Cmd("init", None, <<"--initial-branch=false">>, 0),
                 Cmd("remote add", "origin", UrlO, 0),
                 Cmd("remote add", "mirror", UrlM, 0) >>
    /\ ret = NoValue
    /\ heads0 = heads
    /\ tags0 = tags
    /\ logged = NoMessage
    /\ started = <<params>>

NextSnapshot ==
    \/ LsRemoteOrigin
    \/ LsRemoteMirror

SpecSnapshot == InitSnapshot /\ [][NextSnapshot]_vars


\* The threads of one process calling Logger in any order; the log folder
\* may hold a file of another process under the name this one will choose.
InitLogger ==
    /\ heads = [r \in Repos |-> EmptyFn]
    /\ tags = [r \in Repos |-> EmptyFn]
    /\ config = [pairs |-> <<>>, originRules |-> <<>>, mirrorRules |-> <<>>]
    /\ mpc = "logger"
    /\ returncode = NoValue
    /\ mainRet = NoValue
    /\ cwd = "script"
    /\ work = NoDir
    /\ written = <<>>
    /\ Idle
    /\ logger = LoggerUnset
    /\ fs \in {[FsEmpty EXCEPT !.files = old] :
                 old \in {EmptyFn} \cup {[u \in {v} |-> <<Header(v)>>] : v \in Times}}
    /\ thr = [t \in Threads |-> ThreadIdle]
    /\ clock = 1
    /\ SshIdle
    /\ FetchIdle

NextLogger ==
    \/ Tick
    \/ \E t \in Threads :
         \/ InitAcquire(t)
         \/ InitCheck(t)
         \/ InitPaths(t)
         \/ InitRemove(t)
         \/ InitFileLock(t)
         \/ InitOpenWrite(t)
         \/ InitFileUnlock(t)
         \/ InitDone(t)
         \/ WriteStart(t)
         \/ WriteFileLock(t)
         \/ WriteAppend(t)
         \/ WriteFileUnlock(t)

SpecLogger == InitLogger /\ [][NextLogger]_vars


\* configure_ssh_host alone, on every file of up to MaxLines lines.
InitSsh ==
    /\ heads = [r \in Repos |-> EmptyFn]
    /\ tags = [r \in Repos |-> EmptyFn]
    /\ config = [pairs |-> <<>>, originRules |-> <<>>, mirrorRules |-> <<>>]
    /\ mpc = "ssh"
    /\ returncode = NoValue
    /\ mainRet = NoValue
    /\ cwd = "script"
    /\ work = NoDir
    /\ written = <<>>
    /\ Idle
    /\ LoggerIdle
    /\ FetchIdle
    /\ \E f \in {Absent} \cup {File(ls, nl) : ls \in SeqsUpTo(LineKinds, MaxLines),
                                              nl \in BOOLEAN} :
         /\ f.lines = <<>> => ~f.nl
         /\ ssh = [file |-> f, before |-> f, hostname |-> None, result |-> None, calls |-> 0]

SpecSsh == InitSsh /\ [][ConfigureSshHost]_vars


\* main of fetch-git-repo.py alone, on every configuration within the bounds.
InitFetch ==
    /\ heads = [r \in Repos |-> EmptyFn]
    /\ tags = [r \in Repos |-> EmptyFn]
    /\ config = [pairs |-> <<>>, originRules |-> <<>>, mirrorRules |-> <<>>]
    /\ mpc = "fetch"
    /\ returncode = NoValue
    /\ mainRet = NoValue
    /\ cwd = "script"
    /\ work = NoDir
    /\ written = <<>>
    /\ Idle
    /\ LoggerIdle
    /\ SshIdle
    /\ \E repos \in SeqsUpTo(FetchUrls, MaxRepos), max \in 0..MaxRetry :
         fetch = [pc |-> "start", repos |-> repos, max_retry_times |-> max, i |-> 1,
                  failed_times |-> 0, attempts |-> 0, returncode |-> 0, ret |-> NoValue,
                  handled |-> <<>>]

NextFetch ==
    \/ FetchMainStart
    \/ FetchNextRepo
    \/ FetchAttempt
    \/ FetchAfterRetries

SpecFetch == InitFetch /\ [][NextFetch]_vars
\* main is sequential code: a statement that can run does run, and
\* try_fetch_git_repo and time.sleep return.
SpecFetchLive == SpecFetch /\ WF_vars(NextFetch)


\* The classifier alone, on every pair of snapshots and every rule list
\* within the bounds.
ClassifyCommits == {"A1", "A2"}
HasDistinctKeys(d) == \A i, j \in 1..Len(d) : d[i][1] = d[j][1] => i = j
\* Dicts in every insertion order.
Dicts == {d \in SeqsUpTo(Names \X ClassifyCommits, NumNames) : HasDistinctKeys(d)}
RECURSIVE SortedDictFrom(_, _)
SortedDictFrom(m, i) ==
    IF i > Len(NameList) THEN <<>>
    ELSE IF NameList[i] \in DOMAIN m
         THEN <<(<<NameList[i], m[NameList[i]]>>)>> \o SortedDictFrom(m, i + 1)
         ELSE SortedDictFrom(m, i + 1)
\* Dicts in one insertion order each (the classifier only looks keys up in
\* the mirror's dict).
SortedDicts == {SortedDictFrom(m, 1) : m \in MapsTo(Names, ClassifyCommits)}

InitClassify ==
    /\ heads = [r \in Repos |-> EmptyFn]
    /\ tags = [r \in Repos |-> EmptyFn]
    /\ config = [pairs |-> <<>>, originRules |-> <<>>, mirrorRules |-> <<>>]
    /\ mpc = "classifier"
    /\ returncode = NoValue
    /\ mainRet = NoValue
    /\ cwd = "script"
    /\ work = NoDir
    /\ AuxIdle
    /\ params \in [origin : {UrlO}, mirror : {UrlM}, rules : SeqsUpTo(Rules, MaxRules)]
    /\ pc = "classify"
    /\ savedCwd = None
    /\ originDict \in Dicts
    /\ mirrorDict \in SortedDicts
    /\ added = <<>>
    /\ updated = <<>>
    /\ idx = 1
    /\ cmds = <<>>
    /\ ret = NoValue
    /\ heads0 = heads
    /\ tags0 = tags
    /\ logged = NoMessage
    /\ started = <<params>>

SpecClassify == InitClassify /\ [][Classify]_vars

\* --------------------------------------------------------------- claims
Accepted(rs, name) == \E i \in 1..Len(rs) : ReMatch(rs[i], name)
ClassifierReturned == mpc = "classifier" /\ pc # "classify"

\* C1: the classifier agrees with the reference classification: an accepted
\* source ref is in added iff it is absent from the destination snapshot, in
\* updated iff it is present there with a different commit, in neither iff it
\* is present with an equal commit; a ref absent from the source snapshot is
\* in neither list.
C1_ClassifierMatchesReference ==
    ClassifierReturned =>
        /\ \A n \in Keys(originDict) :
              Accepted(params.rules, n) =>
                /\ n \in Range(added) <=> n \notin Keys(mirrorDict)
                /\ n \in Range(updated) <=>
                      (n \in Keys(mirrorDict) /\ Get(mirrorDict, n) # Get(originDict, n))
                /\ (n \notin Range(added) /\ n \notin Range(updated)) <=>
                      (n \in Keys(mirrorDict) /\ Get(mirrorDict, n) = Get(originDict, n))
        /\ \A n \in Names \ Keys(originDict) :
              n \notin Range(added) /\ n \notin Range(updated)

\* The scenario of the spec: one ref equal on both sides, one only on the
\* source, both accepted: added holds the second, updated nothing.
C1_Witness ==
    /\ ClassifierReturned
    /\ originDict = << <<(<<"a">>), "A1">>, <<(<<"b">>), "A2">> >>
    /\ mirrorDict = << <<(<<"a">>), "A1">> >>
    /\ params.rules = <<RuleA, RuleB>>
    /\ added = << <<"b">> >>
    /\ updated = <<>>

\* C2: added and updated share no ref name, every name in either list is
\* accepted by some rule, and a ref no rule accepts is in neither list
\* whatever its commits.
C2_DisjointAndAccepted ==
    ClassifierReturned =>
        /\ Range(added) \cap Range(updated) = {}
        /\ \A n \in Range(added) \cup Range(updated) : Accepted(params.rules, n)
        /\ \A n \in Keys(originDict) :
              ~Accepted(params.rules, n) => n \notin Range(added) \cup Range(updated)

\* A ref no rule accepts that differs between the snapshots, and one that is
\* missing on the destination, next to an accepted ref that was classified.
C2_Witness ==
    /\ ClassifierReturned
    /\ params.rules = <<RuleA>>
    /\ originDict = << <<(<<"a", "b">>), "A2">>, <<(<<"b">>), "A2">>, <<(<<"a">>), "A2">> >>
    /\ mirrorDict = << <<(<<"a">>), "A1">>, <<(<<"a", "b">>), "A1">> >>
    /\ updated = << <<"a">> >>
    /\ added = <<>>


\* The source and the destination repository of the running pass.
Src == RepoOf(params.origin)
Dst == RepoOf(params.mirror)
At(f, k) == IF k \in DOMAIN f THEN f[k] ELSE None
AllExitedZero == \A k \in 1..Len(cmds) : cmds[k].rc = 0
PushedOk(b) == \E k \in 1..Len(cmds) : cmds[k] = Cmd("push", "mirror", b, 0)
LastCmd == cmds[Len(cmds)]

\* C3: once an updated branch b has been merged and pushed, the
\* destination's b is at a commit whose ancestry holds both the commit the
\* source had for b and the commit the destination had for b when the pass
\* started; and a pass with an updated branch in which every command exited
\* zero returns 0.
C3_UpdatedBranchMerged ==
    /\ \A i \in 1..Len(updated) :
          PushedOk(updated[i]) =>
            /\ HeadPath(updated[i]) \in DOMAIN heads[Dst]
            /\ {heads0[Src][HeadPath(updated[i])], heads0[Dst][HeadPath(updated[i])]}
                  \subseteq Ancestry(heads[Dst][HeadPath(updated[i])])
    /\ (pc = "done" /\ updated # <<>> /\ AllExitedZero) => ret = <<0>>

\* The scenario of the spec: source a at A2, destination a at A1, rule a$,
\* the merge resolves: the destination ends at the merge commit, the pass
\* returns 0.
C3_Witness ==
    /\ pc = "done"
    /\ ret = <<0>>
    /\ params.rules = <<RuleA>>
    /\ updated = << <<"a">> >>
    /\ heads0[Src][HeadPath(<<"a">>)] = "A2"
    /\ heads0[Dst][HeadPath(<<"a">>)] = "A1"
    /\ heads[Dst][HeadPath(<<"a">>)] = "M"

\* C4 as stated: a pass that ends on a failed merge has run no push at all,
\* and the destination's branch is where it was before the pass.
C4_NoPushAtAll ==
    (pc = "done" /\ cmds # <<>> /\ LastCmd.op = "pull" /\ LastCmd.rc # 0) =>
        /\ ret = <<-101>>
        /\ \A k \in 1..Len(cmds) : cmds[k].op # "push"
        /\ At(heads[Dst], HeadPath(LastCmd.arg)) = At(heads0[Dst], HeadPath(LastCmd.arg))

\* C4 as amended: a pass that ends on the failed merge of branch b returns
\* -101, has pushed neither b nor any branch after it (the failed pull is its
\* last command), and the destination's b is where it was before the pass;
\* branches handled before b may have been pushed.
C4_NoPushOfConflictingBranch ==
    (pc = "done" /\ cmds # <<>> /\ LastCmd.op = "pull" /\ LastCmd.rc # 0) =>
        /\ ret = <<-101>>
        /\ LastCmd.arg = updated[idx]
        /\ \A k \in 1..Len(cmds) : ~(cmds[k].op = "push" /\ cmds[k].arg = LastCmd.arg)
        /\ At(heads[Dst], HeadPath(LastCmd.arg)) = At(heads0[Dst], HeadPath(LastCmd.arg))

\* Two diverged updated branches: the first was merged and pushed, the merge
\* of the second failed.
C4_Witness ==
    /\ pc = "done"
    /\ ret = <<-101>>
    /\ updated = << <<"a">>, <<"a", "b">> >>
    /\ idx = 2
    /\ PushedOk(<<"a">>)
    /\ heads0[Src][HeadPath(<<"a", "b">>)] = "A2"
    /\ heads[Dst][HeadPath(<<"a", "b">>)] = "A1"

\* C5 as stated: after a pass that returned 0 every tag of the source is on
\* the destination with the source's commit, and the destination's tags
\* were fetched before the source's.
C5_SourceTagsReplicated ==
    (pc = "done" /\ ret = <<0>>) =>
        /\ \A t \in DOMAIN tags[Src] :
              t \in DOMAIN tags[Dst] /\ tags[Dst][t] = tags[Src][t]
        /\ \E i, j \in 1..Len(cmds) :
              /\ i < j
              /\ cmds[i] = Cmd("fetch", "mirror", <<"--tags">>, 0)
              /\ cmds[j] = Cmd("fetch", "origin", <<"--tags">>, 0)


\* The stage a position of the pass belongs to: 1 Init, 2 SnapshotSource,
\* 3 SnapshotDestination, 4 Classify, 5 ReplicateBranches, 6 ReplicateTags,
\* 7 Done (returned or raised).
Stage(p) ==
    CASE p \in {"start", "init_workspace", "chdir", "git_init",
                "remote_add_origin", "remote_add_mirror"} -> 1
      [] p = "ls_remote_origin" -> 2
      [] p = "ls_remote_mirror" -> 3
      [] p = "classify" -> 4
      [] p \in {"fetch_mirror_branch", "switch_branch", "pull_origin_branch",
                "push_mirror_branch", "fetch_origin_branch", "push_added_branch"} -> 5
      [] p \in {"fetch_mirror_tags", "fetch_origin_tags", "push_tags"} -> 6
      [] p \in {"done", "raised"} -> 7
      [] OTHER -> 0
IsTagCmd(c) == c.arg \in {<<"--tags">>, <<"-f--tags">>, <<"-f", "--tags">>}
TagCmdIssued == \E k \in 1..Len(cmds) : IsTagCmd(cmds[k])
Classified == Range(updated) \cup Range(added)
\* Every classified branch was pushed with status 0 before the first tag command.
BranchesPushedBeforeTags ==
    \A b \in Classified :
        \E k \in 1..Len(cmds) :
            /\ cmds[k] = Cmd("push", "mirror", b, 0)
            /\ \A j \in 1..k : ~IsTagCmd(cmds[j])
BranchPhaseCodes == {-9, -10, -101, -11, -12, -13}

\* C6: a step of a pass stays in its stage, enters the next one, or ends the
\* pass (from Classify it enters ReplicateTags directly only when no branch
\* was classified); a tag command has been issued only if every classified
\* branch was pushed successfully before it; a pass that returned a code of the
\* branch phase has issued no tag command.
C6_StagesInOrder ==
    [][ (pc' # pc /\ pc' # "start") =>
          /\ \/ Stage(pc') \in {Stage(pc), Stage(pc) + 1, 7}
             \/ Stage(pc) = 4 /\ Stage(pc') = 6 /\ updated' = <<>> /\ added' = <<>>
          /\ Stage(pc) >= 1
          /\ TagCmdIssued' => BranchesPushedBeforeTags'
          /\ (pc' = "done" /\ ret'[1] \in BranchPhaseCodes) => ~TagCmdIssued'
      ]_vars

\* A pass with an updated and an added branch that reached the tag commands.
C6_Witness ==
    /\ pc = "done"
    /\ updated # <<>>
    /\ added # <<>>
    /\ BranchesPushedBeforeTags
    /\ TagCmdIssued

\* The code the source returns for a failed command, by the command's place.
SiteCode(c) ==
    CASE c.op = "init" -> -4
      [] c.op = "remote add" /\ c.remote = "origin" -> -5
      [] c.op = "remote add" /\ c.remote = "mirror" -> -6
      [] c.op = "ls-remote" /\ c.remote = "origin" -> -7
      [] c.op = "ls-remote" /\ c.remote = "mirror" -> -8
      [] c.op = "fetch" /\ c.remote = "mirror" /\ ~IsTagCmd(c) -> -9
      [] c.op = "switch" -> -10
      [] c.op = "pull" -> -101
      [] c.op = "push" /\ ~IsTagCmd(c) /\ c.arg \in Range(updated) -> -11
      [] c.op = "fetch" /\ c.remote = "origin" /\ ~IsTagCmd(c) -> -12
      [] c.op = "push" /\ ~IsTagCmd(c) /\ c.arg \in Range(added) -> -13
      [] c.op = "fetch" /\ c.remote = "mirror" /\ IsTagCmd(c) -> -14
      [] c.op = "fetch" /\ c.remote = "origin" /\ IsTagCmd(c) -> -15
      [] c.op = "push" /\ IsTagCmd(c) -> -16

\* C7: only the last git command of a pass can have exited non-zero; when it
\* did, the pass is over with that site's code, so that no command follows
\* the failed one (no later branch, no retry).
C7_FirstFailureIsLast ==
    /\ \A k \in 1..(Len(cmds) - 1) : cmds[k].rc = 0
    /\ (cmds # <<>> /\ LastCmd.rc # 0) =>
          /\ pc = "done"
          /\ ret = <<SiteCode(LastCmd)>>

\* The first of two updated branches fails to push: the second is not touched.
C7_Witness ==
    /\ pc = "done"
    /\ Len(updated) = 2
    /\ LastCmd = Cmd("push", "mirror", updated[1], 1)
    /\ \A k \in 1..Len(cmds) : cmds[k].arg # updated[2]
    /\ ret = <<-11>>

\* C8 as stated: when main exits after a pass that returned, it returns that
\* pass's code if the pass failed, and it returns 0 only if both passes
\* returned 0.
C8_MainPropagates ==
    (mpc = "exit" /\ pc = "done") =>
        /\ ret # <<0>> => mainRet = ret
        /\ mainRet = <<0>> => (ret = <<0>> /\ returncode = <<0>>)

Rerun == get_origin_branch_changes(BuildDict(LsRemote(Src)), BuildDict(LsRemote(Dst)),
                                   params.rules)

\* C10 as stated: after a pass that returned 0 the next pass in the same
\* direction classifies no branch as added and no branch as updated.
C10_RerunClassifiesNothing ==
    (pc = "done" /\ ret = <<0>>) =>
        /\ Rerun.originAdded = <<>>
        /\ Rerun.originUpdated = <<>>

\* C10 as amended: after a pass that returned 0 the next pass in the same
\* direction classifies no branch as added, and a branch it classifies as
\* updated is on both remotes with the source's commit in the ancestry of
\* the destination's commit.
C10_RerunFindsNothingToSend ==
    (pc = "done" /\ ret = <<0>>) =>
        /\ Rerun.originAdded = <<>>
        /\ \A i \in 1..Len(Rerun.originUpdated) :
              LET p == HeadPath(Rerun.originUpdated[i])
              IN  /\ p \in DOMAIN heads[Src]
                  /\ p \in DOMAIN heads[Dst]
                  /\ heads[Src][p] \in Ancestry(heads[Dst][p])

\* The destination took the merge commit of branch a, the source is still at
\* its own commit: the next pass classifies a as updated.
C10_Witness ==
    /\ pc = "done"
    /\ ret = <<0>>
    /\ PushedOk(<<"a">>)
    /\ heads[Src][HeadPath(<<"a">>)] = "A2"
    /\ heads[Dst][HeadPath(<<"a">>)] = "M"
    /\ Rerun.originUpdated = << <<"a">> >>


\* A step of the pass, not of the external writer.
PassStep == written' = written /\ pc' # "start"
NonFastForward(b) ==
    /\ HeadPath(b) \in DOMAIN heads[Dst]
    /\ b \in DOMAIN work.lheads
    /\ heads[Dst][HeadPath(b)] \notin Ancestry(work.lheads[b])

\* C11: with an external writer on the destination, no step of the pass
\* removes a branch of the destination or moves one to a commit that lacks
\* the commit the branch held just before the step; a push that is not a
\* fast-forward at the moment it runs ends the pass with -11 (updated branch)
\* or -13 (added branch) and changes no branch; and every commit the writer
\* put on a branch is still in the ancestry of that branch.
C11_WriterCommitsSurvive ==
    [][ /\ PassStep =>
            /\ \A p \in DOMAIN heads[Dst] :
                  /\ p \in DOMAIN heads'[Dst]
                  /\ heads[Dst][p] \in Ancestry(heads'[Dst][p])
            /\ (pc = "push_mirror_branch" /\ NonFastForward(updated[idx])) =>
                  (ret' = <<-11>> /\ pc' = "done" /\ heads' = heads)
            /\ (pc = "push_added_branch" /\ NonFastForward(added[idx])) =>
                  (ret' = <<-13>> /\ pc' = "done" /\ heads' = heads)
        /\ \A i \in 1..Len(written') :
              /\ written'[i][2] \in DOMAIN heads'[written'[i][1]]
              /\ written'[i][3] \in Ancestry(heads'[written'[i][1]][written'[i][2]])
      ]_vars

\* The writer moved the destination's branch a from B to A1 after the pass
\* had fetched it; the pass merged the source's A2 into B and its push of a
\* was rejected.
C11_Witness ==
    /\ pc = "done"
    /\ ret = <<-11>>
    /\ written = << <<Dst, HeadPath(<<"a">>), "A1">> >>
    /\ At(heads0[Dst], HeadPath(<<"a">>)) = "B"
    /\ At(work.lheads, <<"a">>) = "A2"
    /\ LastCmd = Cmd("push", "mirror", <<"a">>, 1)
    /\ At(heads[Dst], HeadPath(<<"a">>)) = "A1"


\* The pair main works on.
Pair == config.pairs[Len(config.pairs)]
FirstPassParams == [origin |-> Pair.origin, mirror |-> Pair.mirror, rules |-> config.originRules]
SecondPassParams == [origin |-> Pair.mirror, mirror |-> Pair.origin, rules |-> config.mirrorRules]

\* C12: a pass is started only as main's first pass, from the origin to the
\* mirror under the origin's accept rules, or as its second pass, from the
\* mirror to the origin under the mirror's accept rules, and the second only
\* after the first returned 0; when the first pass is over main starts the
\* second exactly if the first returned 0; after the second pass main exits.
C12_TwoPassesInOrder ==
    [][ /\ (pc' = "start" /\ pc # "start") =>
              \/ mpc = "start" /\ mpc' = "first" /\ params' = FirstPassParams
              \/ /\ mpc = "first" /\ mpc' = "second"
                 /\ pc = "done" /\ ret = <<0>>
                 /\ params' = SecondPassParams
        /\ (mpc = "first" /\ mpc' # "first") =>
              /\ mpc' \in {"second", "exit"}
              /\ mpc' = "second" <=> (pc = "done" /\ ret = <<0>>)
              /\ mpc' = "second" => pc' = "start"
        /\ (mpc = "second" /\ mpc' # "second") => (mpc' = "exit" /\ pc' = pc)
        /\ mpc = "exit" => (mpc' = "exit" /\ pc' = pc)
      ]_vars

\* The second pass is taking its first snapshot.
C12_Witness ==
    /\ mpc = "second"
    /\ pc = "ls_remote_origin"
    /\ returncode = <<0>>
    /\ params = [origin |-> UrlM, mirror |-> UrlO, rules |-> config.mirrorRules]


\* C13: when a pass is about to take its first snapshot, the working
\* repository is a new one: the directory was recreated, git init and the two
\* remote-add commands are all the pass has run, the only remotes are the
\* pass's own source and destination, and there is no branch, no tag, no
\* checked-out branch and no object.
C13_CleanWorkspaceAtSnapshot ==
    pc = "ls_remote_origin" =>
        /\ work = [FreshDir EXCEPT !.repo = TRUE,
                       !.remotes = [n \in {"origin", "mirror"} |->
                                       IF n = "origin" THEN Src ELSE Dst]]
        /\ work.lheads = EmptyFn /\ work.ltags = EmptyFn /\ work.objs = {}
        /\ cmds = << Cmd("init", None, <<"--initial-branch=false">>, 0),
                     Cmd("remote add", "origin", params.origin, 0),
                     Cmd("remote add", "mirror", params.mirror, 0) >>

\* The second pass of a run whose first pass replicated a branch and bound
\* the remotes the other way round.
C13_Witness ==
    /\ mpc = "second"
    /\ pc = "ls_remote_origin"
    /\ work.remotes["origin"] = "m.git"
    /\ work.lheads = EmptyFn
    /\ heads0["m.git"] # heads["o.git"]
    /\ DOMAIN heads["m.git"] # {}


\* C14: a pass whose listing of the source (of the destination) exited
\* non-zero has returned -7 (-8), has classified nothing, has run no fetch
\* and no push, and has left the branches and tags of both remotes as they
\* were when it started.
C14_FailedListingEndsPass ==
    (cmds # <<>> /\ LastCmd.op = "ls-remote" /\ LastCmd.rc # 0) =>
        /\ pc = "done"
        /\ ret = IF LastCmd.remote = "origin" THEN <<-7>> ELSE <<-8>>
        /\ added = <<>> /\ updated = <<>>
        /\ \A k \in 1..Len(cmds) : cmds[k].op \notin {"fetch", "push", "pull", "switch"}
        /\ heads = heads0
        /\ tags = tags0

\* The source was listed, it has a branch the rules accept, and the listing
\* of the destination failed.
C14_Witness ==
    /\ pc = "done"
    /\ ret = <<-8>>
    /\ LastCmd = Cmd("ls-remote", "mirror", <<"-h">>, 1)
    /\ originDict # <<>>
    /\ mirrorDict = <<>>
    /\ \E i \in 1..Len(originDict) : Accepted(params.rules, originDict[i][1])


\* The place of a name among the items of the source snapshot.
PlaceIn(d, name) == CHOOSE k \in 1..Len(d) : d[k][1] = name
InSnapshotOrder(list, d) ==
    /\ \A i \in 1..Len(list) : list[i] \in Keys(d)
    /\ \A i, j \in 1..Len(list) : i < j => PlaceIn(d, list[i]) < PlaceIn(d, list[j])

\* C15: each of the classifier's two lists holds names of the source
\* snapshot in the order in which the snapshot's items are iterated, which
\* also means that no name is in a list twice.
C15_OutputInSnapshotOrder ==
    ClassifierReturned =>
        /\ InSnapshotOrder(added, originDict)
        /\ InSnapshotOrder(updated, originDict)

\* A snapshot that is not in alphabetical order, two of its names added.
C15_Witness ==
    /\ ClassifierReturned
    /\ Len(originDict) = 3
    /\ originDict[1][1] = <<"a", "b">>
    /\ originDict[3][1] = <<"a">>
    /\ added = << <<"a", "b">>, <<"a">> >>
    /\ Len(updated) = 1


\* What a snapshot says about the branch at path p of repository r.
InSnapshot(d, r, p) == Leaf(p) \in Keys(d) /\ Get(d, Leaf(p)) = heads[r][p]

\* C16 as stated: once a listing has been turned into a snapshot, every
\* branch of that remote is in the snapshot under the last component of its
\* path, with its own commit.
C16_EveryBranchInSnapshot ==
    /\ pc \in {"ls_remote_mirror", "classify"} =>
          \A p \in DOMAIN heads[Src] : InSnapshot(originDict, Src, p)
    /\ pc = "classify" =>
          \A p \in DOMAIN heads[Dst] : InSnapshot(mirrorDict, Dst, p)


\* The values of one kind that the pass's error message carries.
Logged(kind) == {logged.values[i].v : i \in {j \in 1..Len(logged.values) :
                                                logged.values[j].kind = kind}}

\* C17 as stated: the error of a pass that ended with MergeConflict on
\* branch b carries b, the source's commit of b and the destination's commit
\* of b.
C17_ConflictNamesBranchAndCommits ==
    (pc = "done" /\ ret = <<-101>>) =>
        /\ updated[idx] \in Logged("branch")
        /\ Get(originDict, updated[idx]) \in Logged("commit")
        /\ Get(mirrorDict, updated[idx]) \in Logged("commit")


IsPrefix(a, b) == Len(a) <= Len(b) /\ SubSeq(b, 1, Len(a)) = a
\* The content of the file Logger writes to (empty while there is none).
LogContent ==
    IF logger.file_path \in DOMAIN fs.files THEN fs.files[logger.file_path] ELSE <<>>

\* C18: whatever the threads do, at most one log file is ever opened for
\* writing anew; the two paths, once set, keep their values; and from the
\* moment init has finished the logger stays initialized, exactly one file has
\* been created, it exists, and a step of any thread (a later init call
\* included) leaves what it held at the front of its content.
C18_InitIdempotent ==
    [][ /\ Len(fs'.created) <= 1
        /\ logger.file_path # 0 =>
              /\ logger'.file_path = logger.file_path
              /\ logger'.lock_path = logger.lock_path
        /\ logger.initialized =>
              /\ logger'.initialized
              /\ fs'.created = <<logger.file_path>>
              /\ logger.file_path \in DOMAIN fs'.files
              /\ IsPrefix(LogContent, LogContent')
      ]_vars

\* Logger is initialized, the file has a line after its header, and another
\* init call is inside the lock.
C18_Witness ==
    /\ logger.initialized
    /\ Len(LogContent) >= 2
    /\ \E t \in Threads : thr[t].pc = "init_check"
    /\ Len(fs.created) = 1

\* The threads inside the with block of a FileLock of lock file u.
InFileSection(u) == {t \in Threads : thr[t].lock = u /\
                        thr[t].pc \in {"init_open", "init_unlock", "write_open", "write_unlock"}}
LinesOf(t) == Cardinality({i \in 1..Len(LogContent) : LogContent[i].by = t})
InFlight(t) == IF thr[t].pc = "write_unlock" THEN 1 ELSE 0
SerializedAppendOnly ==
    /\ \A u \in Times : Cardinality(InFileSection(u)') <= 1
    /\ logger.initialized => IsPrefix(LogContent, LogContent')

\* C19 as stated: at most one thread is inside the file section of a lock
\* file, a step leaves the log file's content at the front of its new
\* content, and every completed info/warning/error call of a thread has put
\* exactly one line into the file.
C19_EveryCallAddsALine ==
    [][ /\ SerializedAppendOnly
        /\ \A t \in Threads :
              LinesOf(t)' = thr'[t].written + thr'[t].dropped + InFlight(t)'
      ]_vars

\* C19 as amended: the same, for the calls that found Logger initialized; a
\* call made before Logger.init has set the flag ends without a line.
C19_InitializedCallsAddALine ==
    [][ /\ SerializedAppendOnly
        /\ \A t \in Threads : LinesOf(t)' = thr'[t].written + InFlight(t)'
        /\ \A t \in Threads : thr'[t].dropped > thr[t].dropped => ~logger.initialized
        /\ \A t \in Threads : thr'[t].written > thr[t].written => LinesOf(t)' = LinesOf(t)
      ]_vars

\* One thread is writing its line while the other, whose first call came
\* before init and left no line, waits for the lock.
C19_Witness ==
    /\ thr[1].pc = "write_open"
    /\ thr[2].pc = "write_lock"
    /\ thr[2].dropped = 1
    /\ fs.held[logger.lock_path] = 1
    /\ LinesOf(2) = 0


\* ssh_config(5) reads the keyword of a line without regard to case.
IsHostKeyword(line) == line.kw \in {"Host", "host"}
RECURSIVE Owner(_, _)
\* The hostname of the Host block line i belongs to (None before the first).
Owner(lines, i) ==
    IF i = 0 THEN None
    ELSE IF IsHostKeyword(lines[i]) THEN lines[i].arg
    ELSE Owner(lines, i - 1)
RECURSIVE OtherBlocksFrom(_, _, _)
\* The lines of the Host blocks of the other hostnames, empty lines aside.
OtherBlocksFrom(lines, hostname, i) ==
    IF i > Len(lines) THEN <<>>
    ELSE (IF lines[i] # BlankLine /\ Owner(lines, i) \notin {None, hostname}
          THEN <<lines[i]>> ELSE <<>>) \o OtherBlocksFrom(lines, hostname, i + 1)
HasTrustedBlock(lines, hostname) ==
    \E i, k \in 1..Len(lines) :
        /\ IsHostKeyword(lines[i]) /\ lines[i].arg = hostname
        /\ i < k /\ lines[k] = StrictNo
        /\ \A j \in (i + 1)..k : ~IsHostKeyword(lines[j])

\* C20 as stated: after a call for h that returned True the file has a Host
\* h block with StrictHostKeyChecking no, the Host blocks of the other
\* hostnames are as they were before the call, and one more call for h would
\* leave the file as it is.
C20_TrustedEntryOnly ==
    ssh.result = "True" =>
        /\ ssh.file.exists
        /\ HasTrustedBlock(ssh.file.lines, ssh.hostname)
        /\ OtherBlocksFrom(ssh.file.lines, ssh.hostname, 1)
              = OtherBlocksFrom(ssh.before.lines, ssh.hostname, 1)
        /\ configure_ssh_host(ssh.file, ssh.hostname) = ssh.file

\* ------------------------------------------------------------------ C21
\* The repos main is through with that were not fetched.
FetchFailures == SelectSeq(fetch.handled, LAMBDA h : h.outcome # "fetched")
\* C21 (as stated): when main of the fetch script has returned after its
\* loop, the value is 0 if every repo was fetched, and otherwise the code
\* the header gives for what went wrong last: -2 no hostname in the URL,
\* -3 the SSH host not configured, -4 the retries used up.
C21_ReturnsDocumentedCodes ==
    (fetch.pc = "exit" /\ fetch.ret # <<FetchAutocrlfFailed>>) =>
        IF FetchFailures = <<>> THEN fetch.ret = <<0>>
        ELSE LET last == FetchFailures[Len(FetchFailures)]
             IN  /\ last.outcome = "no hostname" => fetch.ret = <<-2>>
                 /\ last.outcome = "not configured" => fetch.ret = <<-3>>
                 /\ last.outcome = "gave up" => fetch.ret = <<-4>>

\* ------------------------------------------------------------------ C22
\* C22 (as stated): the push that ends the tag phase goes to the
\* destination remote with the force option and the all-tags option as two
\* options, it is the only tag push of the pass, and once it exited zero
\* every tag of the working repository is on the destination with the
\* working repository's commit.
C22_ForcedPushOfAllTags ==
    \A k \in 1..Len(cmds) :
        (cmds[k].op = "push" /\ IsTagCmd(cmds[k])) =>
            /\ k = Len(cmds)
            /\ cmds[k].remote = "mirror"
            /\ cmds[k].arg = <<"-f", "--tags">>
            /\ cmds[k].rc = 0 =>
                  \A t \in DOMAIN work.ltags : At(tags[Dst], t) = work.ltags[t]

\* ------------------------------------------------------------------ C23
\* The pass ended before line 78 bound its local variable cwd.
EndedBeforeWorkspace == pc \in {"done", "raised"} /\ savedCwd = None
\* C23 (as stated): a pass that ends at the SSH step returns to its caller,
\* with -3 when the source URL has no hostname and with -2 when the host
\* could not be configured, and it has issued no git command.
C23_EarlyCodesReachCaller ==
    EndedBeforeWorkspace =>
        /\ pc = "done"
        /\ ret = IF extract_hostname_from_git_url(params.origin) = None
                 THEN <<-3>> ELSE <<-2>>
        /\ cmds = <<>>

\* ------------------------------------------------------------------ C24
\* The commands of the branch phase the pass has run so far.
BranchCmds == SelectSeq(cmds, LAMBDA c : c.op \in {"fetch", "switch", "pull", "push"}
                                          /\ ~IsTagCmd(c))
UpdatedCmds(b) == << Cmd("fetch", "mirror", b, 0), Cmd("switch", None, b, 0),
                     Cmd("pull", "origin", b, 0), Cmd("push", "mirror", b, 0) >>
AddedCmds(b) == << Cmd("fetch", "origin", b, 0), Cmd("push", "mirror", b, 0) >>
RECURSIVE Flatten(_)
Flatten(ss) == IF ss = <<>> THEN <<>> ELSE Head(ss) \o Flatten(Tail(ss))
\* What the branch phase runs when nothing fails: the updated branches in
\* list order, then the added branches in list order.
BranchPlan == Flatten([i \in 1..Len(updated) |-> UpdatedCmds(updated[i])])
              \o Flatten([j \in 1..Len(added) |-> AddedCmds(added[j])])

\* C24: the branch commands run so far are the beginning of the plan
\* (every updated branch in list order: fetch from the destination, switch,
\* pull from the source, push; then every added branch in list order: fetch
\* from the source, push), each at most once; a command is only run after
\* all before it exited zero; the tag phase starts after the whole plan.
C24_BranchPhaseFollowsPlan ==
    /\ Len(BranchCmds) <= Len(BranchPlan)
    /\ \A k \in 1..Len(BranchCmds) :
          /\ [BranchCmds[k] EXCEPT !.rc = 0] = BranchPlan[k]
          /\ k < Len(BranchCmds) => BranchCmds[k].rc = 0
    /\ TagCmdIssued =>
          /\ Len(BranchCmds) = Len(BranchPlan)
          /\ \A k \in 1..Len(BranchCmds) : BranchCmds[k].rc = 0

\* An updated and an added branch were both handled and the tag phase began.
C24_Witness ==
    /\ updated = << <<"a">> >>
    /\ added = << <<"a", "b">> >>
    /\ Len(BranchCmds) = 6
    /\ TagCmdIssued

\* ------------------------------------------------------------------ C25
\* C25: compared with the start of the pass, the source remote has the same
\* branches and tags, and a branch of the destination remote that differs
\* is one the pass classified as added or updated.
C25_PassFrame ==
    /\ heads[Src] = heads0[Src]
    /\ tags[Src] = tags0[Src]
    /\ \A p \in DOMAIN heads[Dst] \cup DOMAIN heads0[Dst] :
          At(heads[Dst], p) # At(heads0[Dst], p) =>
              \E b \in Classified : p = HeadPath(b)

\* The pass is over and has moved the destination's a, while ab, which no
\* rule accepts and which differs on the source, is where it was.
C25_Witness ==
    /\ pc = "done"
    /\ params.rules = <<RuleA>>
    /\ At(heads[Dst], HeadPath(<<"a">>)) # At(heads0[Dst], HeadPath(<<"a">>))
    /\ At(heads0[Src], HeadPath(<<"a", "b">>)) = "A2"
    /\ At(heads0[Dst], HeadPath(<<"a", "b">>)) = "A1"
    /\ At(heads[Dst], HeadPath(<<"a", "b">>)) = "A1"

\* ------------------------------------------------------------------ C26
\* C26: when the pass has failed, every branch whose push exited zero
\* earlier in the pass is on the destination at the commit that was pushed
\* (the working repository's commit for it).
C26_PushedBranchesStay ==
    (pc = "done" /\ ret # <<Success>>) =>
        \A b \in Classified :
            PushedOk(b) =>
                /\ HeadPath(b) \in DOMAIN heads[Dst]
                /\ heads[Dst][HeadPath(b)] = At(work.lheads, b)

\* The pass failed in the tag phase after it had moved the destination's a.
C26_Witness ==
    /\ pc = "done"
    /\ ret \in {<<FetchMirrorTagsFailed>>, <<FetchOriginTagsFailed>>, <<PushTagsFailed>>}
    /\ PushedOk(<<"a">>)
    /\ At(heads[Dst], HeadPath(<<"a">>)) # At(heads0[Dst], HeadPath(<<"a">>))
    /\ At(heads[Dst], HeadPath(<<"a">>)) = At(work.lheads, <<"a">>)

\* ------------------------------------------------------------------ C27
\* The except clause of the pass (lines 306-308) has logged an exception.
ExceptionLogged == logged.text = "Error: {e}"
\* C27: an exception raised by a step (the workspace could not be deleted
\* or created, a listing line did not split into two fields) ends the pass
\* inside the function with return code -1, the commands run are those
\* before the step, and from then on no command is run; a pass is only left
\* by an error (C23) at the SSH step, before any of these steps.
C27_ExceptionsEndThePass ==
    /\ [](ExceptionLogged =>
            /\ pc = "done"
            /\ ret = <<-1>>
            /\ AllExitedZero
            /\ cmds # <<>> => LastCmd.op = "ls-remote")
    /\ []((pc = "done" /\ ret = <<-1>>) => ExceptionLogged)
    /\ [](pc = "raised" => (~ExceptionLogged /\ EndedBeforeWorkspace))
    /\ [][ExceptionLogged => UNCHANGED <<cmds, pc, ret>>]_vars

\* The listing of the destination had a line that does not split in two.
C27_Witness ==
    /\ pc = "done"
    /\ ret = <<-1>>
    /\ logged = Message("Error: {e}", <<Val("exception", "ValueError")>>)
    /\ Len(cmds) = 5
    /\ LastCmd = Cmd("ls-remote", "mirror", <<"-h">>, 0)

\* ------------------------------------------------------------------ C28
\* main has started a pass from the origin to the mirror of the i-th pair.
PairStarted(i) ==
    \E k \in 1..Len(started) :
        started[k] = [origin |-> config.pairs[i].origin,
                      mirror |-> config.pairs[i].mirror,
                      rules |-> config.originRules]
\* C28 (as stated): when main has returned, a pass has been started for the
\* first listed pair with that pair's URLs, and for every further pair
\* unless main returned a failure.
C28_EveryPairSynced ==
    mpc = "exit" =>
        \A i \in 1..Len(config.pairs) :
            PairStarted(i) \/ (i > 1 /\ mainRet # <<0>>)

\* ------------------------------------------------------------------ C29
\* The value main's returncode holds after a repo with this outcome.
FetchCode(outcome) ==
    CASE outcome = "gave up" -> FetchGaveUp
      [] outcome = "not configured" -> FetchConfigureFailed
      [] outcome = "no hostname" -> FetchNoHostname
\* The current repo: calls so far are within max-retry-times, at most one
\* of them succeeded, and none while the loop is still going.
RetriesBounded ==
    /\ fetch.attempts <= fetch.max_retry_times
    /\ fetch.attempts - fetch.failed_times \in {0, 1}
    /\ fetch.pc = "try" => fetch.attempts = fetch.failed_times
\* The repos the loop is through with: -4 stands for "no call succeeded",
\* and returncode holds the code of the last repo that failed.
FailuresRecorded ==
    /\ \A k \in 1..Len(fetch.handled) :
          LET h == fetch.handled[k]
          IN  /\ h.attempts <= fetch.max_retry_times
              /\ h.outcome = "gave up" => h.attempts = h.failed
              /\ h.outcome = "fetched" => h.attempts = h.failed + 1
    /\ fetch.pc \in {"repo", "try", "tried", "exit"} =>
          fetch.returncode = IF FetchFailures = <<>> THEN 0
                             ELSE FetchCode(FetchFailures[Len(FetchFailures)].outcome)
    /\ (fetch.pc = "exit" /\ fetch.ret # <<FetchAutocrlfFailed>>) =>
          fetch.ret = <<fetch.returncode>>

\* C29: try_fetch_git_repo is called at most max-retry-times times for a
\* repo and not again after a call succeeded; -4 is recorded for a repo
\* exactly when none of its calls succeeded; a recorded failure stays when
\* a later repo is fetched; the retry loop ends and main returns.
C29_RetryLoop ==
    /\ []RetriesBounded
    /\ []FailuresRecorded
    /\ (fetch.pc = "try") ~> (fetch.pc = "tried")
    /\ <>(fetch.pc = "exit")

\* The first repo was given up after two failed calls, the second fetched
\* at its second call, and main returned -4.
C29_Witness ==
    /\ fetch.pc = "exit"
    /\ fetch.ret = <<-4>>
    /\ Len(fetch.handled) = 2
    /\ fetch.handled[1].outcome = "gave up"
    /\ fetch.handled[1].attempts = 2
    /\ fetch.handled[2].outcome = "fetched"
    /\ fetch.handled[2].attempts = 2

\* ------------------------------------------------------------------ C30
\* C30: whenever a pass is about to start or is over (returned any code,
\* caught an exception, or was left at the SSH step), the working directory
\* is the one main was started in, the same for the second pass as for the
\* first.
C30_WorkingDirectoryRestored ==
    pc \in {"start", "done", "raised"} => cwd = "script"

\* A pass that had changed into the workspace and run commands there ended
\* by an exception, back in the starting directory.
C30_Witness ==
    /\ pc = "done"
    /\ ExceptionLogged
    /\ cmds # <<>>
    /\ savedCwd = "script"
    /\ cwd = "script"

====
